---- MODULE Spec2Model ----
(***************************************************************************)
(* Resale tracker (src/app.py, src/scripts/normalize_purchase_sources.py): *)
(* the relational store (lots, items, listings, purchase_sources), the     *)
(* request handlers that write it, the purchase-source normalizer and the  *)
(* even split of a lot's cost.                                             *)
(*                                                                         *)
(* Money is held in thousandths of the currency unit ("mills"), so that a  *)
(* Decimal the forms accept with more than two decimal places (10.005) is  *)
(* a different value from its rounding to cents.  Text is held as TLA+     *)
(* strings and processed character by character.                           *)
(***************************************************************************)
EXTENDS Integers, Sequences, FiniteSets, TLC

VARIABLES
    lots,              \* table lots: id -> row
    items,             \* table items: id -> row
    listings,          \* table listings: id -> row
    purchase_sources,  \* table purchase_sources: id -> row
    seq,               \* sqlite_sequence: the last AUTOINCREMENT id of each table
    flash,             \* the message the last request flashed (the script: printed), or the
                       \* exception it ended with
    split_call,        \* a direct call of split_amount_evenly: arguments and result
    normalize_call,    \* a direct call of normalize_purchase_source: argument and result
    txn,               \* the open transaction of a connection: its uncommitted writes, or None
    summary            \* the filters and the totals of the last item list rendered, or None

vars == <<lots, items, listings, purchase_sources, seq, flash, split_call, normalize_call, txn, summary>>

store == <<lots, items, listings, purchase_sources>>

\* ------------------------------------------------------------------ bounds

MaxItems == 2
MaxLots == 1
MaxSplitCount == 4
MaxSplitMills == 125
MaxSourceLen == 22
MaxNewSources == 1
MaxListings == 2

\* ------------------------------------------------------------------ program constants

MARKETPLACES == {"eBay", "Vinted", "Adverts.ie"}

STATUSES == {"Unlisted", "Listed", "Sold"}

\* a nullable column or an optional value: None, or Some(v)
None == <<>>

Some(v) == <<v>>

Get(o) == o[1]

\* ------------------------------------------------------------------ text

Ch(s, i) == SubSeq(s, i, i)

\* the cased letters, each with its other case
LowerOf ==
    ("A" :> "a") @@ ("B" :> "b") @@ ("C" :> "c") @@ ("D" :> "d") @@ ("E" :> "e") @@
    ("F" :> "f") @@ ("G" :> "g") @@ ("H" :> "h") @@ ("I" :> "i") @@ ("J" :> "j") @@
    ("K" :> "k") @@ ("L" :> "l") @@ ("M" :> "m") @@ ("N" :> "n") @@ ("O" :> "o") @@
    ("P" :> "p") @@ ("Q" :> "q") @@ ("R" :> "r") @@ ("S" :> "s") @@ ("T" :> "t") @@
    ("U" :> "u") @@ ("V" :> "v") @@ ("W" :> "w") @@ ("X" :> "x") @@ ("Y" :> "y") @@
    ("Z" :> "z")

UpperOf ==
    ("a" :> "A") @@ ("b" :> "B") @@ ("c" :> "C") @@ ("d" :> "D") @@ ("e" :> "E") @@
    ("f" :> "F") @@ ("g" :> "G") @@ ("h" :> "H") @@ ("i" :> "I") @@ ("j" :> "J") @@
    ("k" :> "K") @@ ("l" :> "L") @@ ("m" :> "M") @@ ("n" :> "N") @@ ("o" :> "O") @@
    ("p" :> "P") @@ ("q" :> "Q") @@ ("r" :> "R") @@ ("s" :> "S") @@ ("t" :> "T") @@
    ("u" :> "U") @@ ("v" :> "V") @@ ("w" :> "W") @@ ("x" :> "X") @@ ("y" :> "Y") @@
    ("z" :> "Z")

IsUpper(c) == c \in DOMAIN LowerOf

IsLower(c) == c \in DOMAIN UpperOf

ToLowerCh(c) == IF IsUpper(c) THEN LowerOf[c] ELSE c

ToUpperCh(c) == IF IsLower(c) THEN UpperOf[c] ELSE c

\* str.strip(): the alphabet's only whitespace is the blank
RECURSIVE LStrip(_)
LStrip(s) == IF Len(s) > 0 /\ Ch(s, 1) = " " THEN LStrip(SubSeq(s, 2, Len(s))) ELSE s

RECURSIVE RStrip(_)
RStrip(s) == IF Len(s) > 0 /\ Ch(s, Len(s)) = " " THEN RStrip(SubSeq(s, 1, Len(s) - 1)) ELSE s

Strip(s) == RStrip(LStrip(s))

\* str.lower()
RECURSIVE Lower(_)
Lower(s) == IF Len(s) = 0 THEN "" ELSE ToLowerCh(Ch(s, 1)) \o Lower(SubSeq(s, 2, Len(s)))

\* " ".join(s.split()): no leading or trailing blank, runs of blanks become one
RECURSIVE CollapseRuns(_)
CollapseRuns(s) ==
    IF Len(s) < 2 THEN s
    ELSE IF Ch(s, 1) = " " /\ Ch(s, 2) = " " THEN CollapseRuns(SubSeq(s, 2, Len(s)))
    ELSE Ch(s, 1) \o CollapseRuns(SubSeq(s, 2, Len(s)))

JoinSplit(s) == CollapseRuns(Strip(s))

StartsWith(s, p) == Len(s) >= Len(p) /\ SubSeq(s, 1, Len(p)) = p

Contains(s, p) == \E k \in 1..(Len(s) - Len(p) + 1) : SubSeq(s, k, k + Len(p) - 1) = p

\* s.find(p) from position k on, counted from 1; 0 when p does not occur
RECURSIVE FindFrom(_, _, _)
FindFrom(s, p, k) ==
    IF k + Len(p) - 1 > Len(s) THEN 0
    ELSE IF SubSeq(s, k, k + Len(p) - 1) = p THEN k
    ELSE FindFrom(s, p, k + 1)

FirstOccurrence(s, p) == FindFrom(s, p, 1)

\* s.replace(p, "", 1)
RemoveFirst(s, p) ==
    LET k == FirstOccurrence(s, p)
    IN IF k = 0 THEN s ELSE SubSeq(s, 1, k - 1) \o SubSeq(s, k + Len(p), Len(s))

\* s.replace(p, ""): every non-overlapping occurrence, left to right
RECURSIVE RemoveAll(_, _)
RemoveAll(s, p) ==
    LET k == FirstOccurrence(s, p)
    IN IF k = 0 THEN s
       ELSE SubSeq(s, 1, k - 1) \o RemoveAll(SubSeq(s, k + Len(p), Len(s)), p)

\* str.upper()
RECURSIVE Upper(_)
Upper(s) == IF Len(s) = 0 THEN "" ELSE ToUpperCh(Ch(s, 1)) \o Upper(SubSeq(s, 2, Len(s)))

\* str.title(): a letter is upper-cased after a non-letter, lower-cased after a letter
RECURSIVE TitleFrom(_, _)
TitleFrom(s, afterLetter) ==
    IF Len(s) = 0 THEN ""
    ELSE LET c == Ch(s, 1)
             letter == IsUpper(c) \/ IsLower(c)
         IN (IF afterLetter THEN ToLowerCh(c) ELSE ToUpperCh(c))
                \o TitleFrom(SubSeq(s, 2, Len(s)), letter)

Title(s) == TitleFrom(s, FALSE)

\* ------------------------------------------------------------------ purchase-source normalizer

replacements ==
    [ k \in { "fb", "facebook", "facebook m", "home", "adverts", "vinted", "tk max",
              "tk maxx", "temu", "charity shop", "free", "dump" } |->
        CASE k \in {"fb", "facebook", "facebook m"} -> "Facebook Marketplace"
          [] k = "home" -> "Home"
          [] k = "adverts" -> "Adverts"
          [] k = "vinted" -> "Vinted"
          [] k \in {"tk max", "tk maxx"} -> "TK Maxx"
          [] k = "temu" -> "Temu"
          [] k = "charity shop" -> "Charity Shop"
          [] k = "free" -> "Free"
          [] k = "dump" -> "Dump" ]

format_location(prefix, location) == prefix \o " - " \o Title(location)

OrOther(location) == IF location = "" THEN "Other" ELSE location

\* the rule chain of normalize_purchase_source on the lower-cased, collapsed text
NormalizeRules(source, lower) ==
    IF lower \in DOMAIN replacements THEN replacements[lower]
    ELSE IF StartsWith(lower, "svp ")
        THEN format_location("SVP", Strip(RemoveFirst(lower, "svp")))
    ELSE IF StartsWith(lower, "vision ireland ")
        THEN format_location("Vision Ireland", Strip(RemoveFirst(lower, "vision ireland")))
    ELSE IF StartsWith(lower, "vision ")
        THEN format_location("Vision Ireland", Strip(RemoveFirst(lower, "vision")))
    ELSE IF StartsWith(lower, "sue ryder ")
        THEN format_location("Sue Ryder", Strip(RemoveFirst(lower, "sue ryder")))
    ELSE IF StartsWith(lower, "cancer research ")
        THEN format_location("Cancer Research", Strip(RemoveFirst(lower, "cancer research")))
    ELSE IF StartsWith(lower, "cancer ")
        THEN format_location("Cancer Research", Strip(RemoveFirst(lower, "cancer")))
    ELSE IF Contains(lower, "car boot") \/ Contains(lower, "carboot")
        THEN format_location("Car Boot",
                 OrOther(Strip(RemoveAll(RemoveAll(lower, "car boot"), "carboot"))))
    ELSE IF Contains(lower, "auction")
        THEN IF Contains(lower, "lockes") THEN "Auction - Lockes"
             ELSE IF Contains(lower, "matthews") THEN "Auction - Matthews"
             ELSE IF Contains(lower, "south dublin") THEN "Auction - South Dublin"
             ELSE IF Contains(lower, "downs") THEN "Auction - Downs"
             ELSE "Auction - Other"
    ELSE IF Contains(lower, "wholesale")
        THEN IF Contains(lower, "italian vintage") THEN "Wholesale - Italian Vintage"
             ELSE IF Contains(lower, "vintage") THEN "Wholesale - Vintage"
             ELSE "Wholesale - Other"
    ELSE IF Contains(lower, "thrift")
        THEN format_location("Thrift", OrOther(Strip(RemoveAll(lower, "thrift"))))
    ELSE IF StartsWith(lower, "oxfam ")
        THEN format_location("Oxfam", Strip(RemoveFirst(lower, "oxfam")))
    ELSE IF StartsWith(lower, "jack and jill ")
        THEN format_location("Jack and Jill", Strip(RemoveFirst(lower, "jack and jill")))
    ELSE IF StartsWith(lower, "enable ")
        THEN format_location("Enable Ireland", Strip(RemoveFirst(lower, "enable")))
    ELSE IF StartsWith(lower, "barnardos ")
        THEN format_location("Barnardos", Strip(RemoveFirst(lower, "barnardos")))
    ELSE IF StartsWith(lower, "ark ")
        THEN format_location("Ark", Strip(RemoveFirst(lower, "ark")))
    ELSE IF lower = "ark" THEN "Ark - Bray"
    ELSE source

\* the rule chain applied to the text as typed: no source.lower()
normalize_purchase_source_case_sensitive(value) ==
    LET source == Strip(value)
    IN IF source = "" THEN source ELSE NormalizeRules(source, JoinSplit(source))

\* the rule chain with the thrift rule tried before the others
normalize_purchase_source_thrift_first(value) ==
    LET source == Strip(value)
        lower == JoinSplit(Lower(source))
    IN IF source = "" THEN source
       ELSE IF Contains(lower, "thrift")
           THEN format_location("Thrift", OrOther(Strip(RemoveAll(lower, "thrift"))))
       ELSE NormalizeRules(source, lower)

normalize_purchase_source(value) ==
    LET source == Strip(value)
    IN IF source = "" THEN source ELSE NormalizeRules(source, JoinSplit(Lower(source)))

\* ------------------------------------------------------------------ money and dates

Digits == "0123456789"

DigitValue ==
    ("0" :> 0) @@ ("1" :> 1) @@ ("2" :> 2) @@ ("3" :> 3) @@ ("4" :> 4) @@ ("5" :> 5) @@
    ("6" :> 6) @@ ("7" :> 7) @@ ("8" :> 8) @@ ("9" :> 9)

IsDigit(c) == c \in DOMAIN DigitValue

AllDigits(s) == \A k \in 1..Len(s) : IsDigit(Ch(s, k))

RECURSIVE DigitsValue(_)
DigitsValue(s) ==
    IF Len(s) = 0 THEN 0
    ELSE 10 * DigitsValue(SubSeq(s, 1, Len(s) - 1)) + DigitValue[Ch(s, Len(s))]

\* digits [ "." digits ], at most three decimals (the resolution of the model), in mills
UnsignedMills(s) ==
    IF Contains(s, ".")
    THEN LET k == FirstOccurrence(s, ".")
             whole == SubSeq(s, 1, k - 1)
             frac == SubSeq(s, k + 1, Len(s))
             pad == frac \o SubSeq("000", 1, 3 - Len(frac))
         IN IF Len(whole) + Len(frac) > 0 /\ Len(frac) <= 3 /\ AllDigits(whole) /\ AllDigits(frac)
            THEN Some(DigitsValue(whole) * 1000 + DigitsValue(pad))
            ELSE None
    ELSE IF Len(s) > 0 /\ AllDigits(s) THEN Some(DigitsValue(s) * 1000) ELSE None

\* Decimal("NaN"): a Decimal without a value; float() of it is a nan, which sqlite3 binds
\* as NULL, and an ordering comparison of it raises InvalidOperation
NaN == <<"NaN", "NaN">>

\* parse_decimal: Decimal(value.strip()), None when empty or not a number
parse_decimal(value) ==
    LET v == Strip(value)
    IN IF v = "" THEN None
       ELSE IF Lower(v) \in {"nan", "-nan", "+nan"} THEN NaN
       ELSE IF Ch(v, 1) = "-"
            THEN LET m == UnsignedMills(SubSeq(v, 2, Len(v)))
                 IN IF m = None THEN None ELSE Some(0 - Get(m))
            ELSE UnsignedMills(v)

\* float(Decimal) written to a REAL column and read back through Decimal(str(float)):
\* the nearest double of a decimal of at most 15 significant digits prints as that decimal
ToReal(mills) == mills

\* Decimal.quantize(Decimal('1')) under the default context: round half to even
RoundHalfEven(n, unit) ==
    LET q == n \div unit
        r == n % unit
    IN IF 2 * r < unit THEN q
       ELSE IF 2 * r > unit THEN q + 1
       ELSE IF q % 2 = 0 THEN q ELSE q + 1

\* cents as a Decimal of the currency unit
CentsToMills(cents) == cents * 10

\* strptime's %d and %m take one or two digits, %Y exactly four
DaysInMonth(m, y) ==
    IF m = 2 THEN (IF y % 4 = 0 /\ (y % 100 # 0 \/ y % 400 = 0) THEN 29 ELSE 28)
    ELSE IF m \in {4, 6, 9, 11} THEN 30 ELSE 31

TwoDigits(n) == Ch(Digits, (n \div 10) + 1) \o Ch(Digits, (n % 10) + 1)

\* the three fields of s around two separators, or None
DateFields(s, sep) ==
    LET a == FirstOccurrence(s, sep)
        b == IF a = 0 THEN 0 ELSE FindFrom(s, sep, a + 1)
        f == <<SubSeq(s, 1, a - 1), SubSeq(s, a + 1, b - 1), SubSeq(s, b + 1, Len(s))>>
    IN IF b # 0 /\ (\A k \in 1..3 : Len(f[k]) > 0 /\ AllDigits(f[k])) THEN Some(f) ELSE None

\* strftime(DATE_FORMAT) of a valid day, month, year given as digit strings
FormatDate(d, m, y) ==
    IF /\ Len(d) \in 1..2 /\ Len(m) \in 1..2 /\ Len(y) = 4
       /\ DigitsValue(m) \in 1..12
       /\ DigitsValue(d) \in 1..DaysInMonth(DigitsValue(m), DigitsValue(y))
       /\ DigitsValue(y) >= 1
    THEN Some(TwoDigits(DigitsValue(d)) \o "/" \o TwoDigits(DigitsValue(m)) \o "/" \o y)
    ELSE None

\* parse_date: DATE_FORMAT first, then ISO; the result is always in DATE_FORMAT
parse_date(value) ==
    LET v == Strip(value)
        dmy == DateFields(v, "/")
        ymd == DateFields(v, "-")
        first == IF dmy = None THEN None ELSE FormatDate(Get(dmy)[1], Get(dmy)[2], Get(dmy)[3])
    IN IF v = "" THEN None
       ELSE IF first # None THEN first
       ELSE IF ymd = None THEN None
       ELSE FormatDate(Get(ymd)[3], Get(ymd)[2], Get(ymd)[1])

\* ------------------------------------------------------------------ the even split

RECURSIVE SumSeq(_)
SumSeq(s) == IF Len(s) = 0 THEN 0 ELSE Head(s) + SumSeq(Tail(s))

\* a split that hands the whole remainder to the first position
split_amount_front_loaded(total, count) ==
    IF count <= 0 THEN <<>>
    ELSE LET cents == RoundHalfEven(total, 10)
             base == cents \div count
             remainder == cents % count
         IN [ i \in 1..count |-> CentsToMills(base + (IF i = 1 THEN remainder ELSE 0)) ]

\* base + 1 cents for the positions before the remainder, base cents after
split_amount_evenly(total, count) ==
    IF count <= 0 THEN <<>>
    ELSE LET cents == RoundHalfEven(total, 10)
             base == cents \div count
             remainder == cents % count
         IN [ i \in 1..count |-> CentsToMills(base + (IF i - 1 < remainder THEN 1 ELSE 0)) ]

\* ------------------------------------------------------------------ the store

PURCHASE_SOURCE_OPTIONS ==
    << "Adverts", "Ark - Bray", "Auction - Downs", "Auction - Lockes", "Auction - Matthews",
       "Auction - South Dublin", "Auction - Other", "Barnardos - Clondalkin", "BRC - Belfast",
       "Car Boot - Athy", "Car Boot - Ballymun", "Car Boot - Bray", "Car Boot - Brockagh",
       "Car Boot - Inch", "Car Boot - Newtown", "Car Boot - Tallaght", "Cancer Research - Bray",
       "Cancer Research - Kimmage", "Cancer Research - Rathmines", "Cancer Research - Swords",
       "Cancer Research - Tallaght", "Charity Shop", "Enable Ireland - Finglas",
       "Enable Ireland - Kimmage", "Enable Ireland - Terenure", "Facebook Marketplace",
       "Five Loaves - Bray", "Free", "Home", "Jack and Jill - Arklow", "Jack and Jill - Gorey",
       "Jack and Jill - Wicklow", "Liberty - Bray", "Magpies Nest - Tallaght",
       "Marie Curie - Belfast", "NTMK Charity", "Oxfam - Belfast", "Oxfam - Bray", "Oxfam - DL",
       "Oxfam - Rathmines", "Octopus Garden - Belfast", "Other", "Purple House - Bray",
       "Save the Children - Belfast", "Sue Ryder - Arklow", "Sue Ryder - Blackrock",
       "Sue Ryder - Gorey", "Sue Ryder - Kimmage", "Sue Ryder - Wicklow", "SVP - Arklow",
       "SVP - Ballinteer", "SVP - Ballyfermot", "SVP - Bray", "SVP - Clondalkin", "SVP - Crumlin",
       "SVP - Finglas", "SVP - Firhouse", "SVP - Gorey", "SVP - Greystones", "SVP - Kells",
       "SVP - Kingscourt", "SVP - Navan", "SVP - Newtown", "SVP - NTMK", "SVP - Rathfarnham",
       "SVP - Rathmines", "SVP - Tallaght", "SVP - Terenure", "SVP - Wicklow", "Temu",
       "Thrift - Ashford", "Thrift - DL", "Thrift - Kilcoole", "Thrift - Navan", "TK Maxx",
       "Vinted", "Vision Ireland - Arklow", "Vision Ireland - Clondalkin",
       "Vision Ireland - Crumlin", "Vision Ireland - DL", "Vision Ireland - Finglas",
       "Vision Ireland - Kimmage", "Vision Ireland - Rathfarnam", "Vision Ireland - Rathmines",
       "Vision Ireland - Terenure", "Vision Ireland - Walkinstown", "Vision Ireland - Wicklow",
       "Wholesale - Italian Vintage", "Wholesale - Vintage", "Wholesale - Other" >>

\* a table is a function from the ids of its rows
Insert(table, id, row) == [k \in DOMAIN table \cup {id} |-> IF k = id THEN row ELSE table[k]]

Delete(table, ids) == [k \in DOMAIN table \ ids |-> table[k]]

EmptyTable == <<>>

\* the database after init_db() on a new file: the seeded purchase sources, nothing else
init_db ==
    /\ lots = EmptyTable
    /\ items = EmptyTable
    /\ listings = EmptyTable
    /\ purchase_sources =
           [k \in 1..Len(PURCHASE_SOURCE_OPTIONS) |->
               [name |-> PURCHASE_SOURCE_OPTIONS[k], active |-> 1]]
    /\ seq = [lots |-> 0, items |-> 0, listings |-> 0,
              purchase_sources |-> Len(PURCHASE_SOURCE_OPTIONS)]

NoCall == [total |-> 0, count |-> 0, values |-> <<>>, done |-> FALSE]

NoNormalizeCall == [value |-> "", result |-> "", done |-> FALSE]

Init ==
    /\ init_db
    /\ flash = ""
    /\ split_call = NoCall
    /\ normalize_call = NoNormalizeCall
    /\ txn = None
    /\ summary = None

\* INSERT OR IGNORE INTO purchase_sources (name): the table and its sequence afterwards
ensure_purchase_source(db, source) ==
    IF source = "" \/ \E k \in DOMAIN db.purchase_sources : db.purchase_sources[k].name = source
    THEN db
    ELSE [db EXCEPT
             !.purchase_sources =
                 Insert(@, db.seq.purchase_sources + 1, [name |-> source, active |-> 1]),
             !.seq.purchase_sources = @ + 1]

\* the four tables and the sequences as one value, for the handlers that write several
Db == [lots |-> lots, items |-> items, listings |-> listings,
       purchase_sources |-> purchase_sources, seq |-> seq]

Commit(db) ==
    /\ lots' = db.lots
    /\ items' = db.items
    /\ listings' = db.listings
    /\ purchase_sources' = db.purchase_sources
    /\ seq' = db.seq

\* the value sqlite3 binds for an optional Decimal passed through float(): NULL for a nan
Bind(d) == IF d = None \/ d = NaN THEN None ELSE Some(ToReal(Get(d)))

\* a handler's answer: the flashed message and the committed database
Respond(message, db) ==
    /\ flash' = message
    /\ Commit(db)
    /\ UNCHANGED <<split_call, normalize_call, txn, summary>>

\* an exception inside `with get_db() as conn`: the connection rolls back, nothing is flashed
Raise(exception) == Respond(exception, Db)

lot_is_finalized(lot) == lot.is_finalized # 0

\* fetch_lot_items / allocate_lot_cost_evenly's SELECT: the ids of the lot's members
LotItemIds(tbl, lot_id) == {k \in DOMAIN tbl : tbl[k].lot_id = Some(lot_id)}

\* ORDER BY id
RECURSIVE Ascending(_)
Ascending(S) ==
    IF S = {} THEN <<>>
    ELSE LET m == CHOOSE x \in S : \A y \in S : x <= y
         IN <<m>> \o Ascending(S \ {m})

\* ORDER BY id DESC
RECURSIVE Descending(_)
Descending(S) ==
    IF S = {} THEN <<>>
    ELSE LET m == CHOOSE x \in S : \A y \in S : x >= y
         IN <<m>> \o Descending(S \ {m})

\* an allocation that pairs the shares with the members from the largest id down
allocate_lot_cost_descending(db, lot_id) ==
    IF lot_id \notin DOMAIN db.lots THEN [ok |-> FALSE, items |-> db.items]
    ELSE LET item_rows == Descending(LotItemIds(db.items, lot_id))
             allocations == split_amount_evenly(ToReal(db.lots[lot_id].total_cost), Len(item_rows))
             Position(id) == CHOOSE p \in 1..Len(item_rows) : item_rows[p] = id
         IN IF Len(item_rows) = 0 THEN [ok |-> FALSE, items |-> db.items]
            ELSE [ok |-> TRUE,
                  items |-> [k \in DOMAIN db.items |->
                      IF db.items[k].lot_id = Some(lot_id) /\ Position(k) <= Len(allocations)
                      THEN [db.items[k] EXCEPT !.purchase_price = ToReal(allocations[Position(k)])]
                      ELSE db.items[k]]]

\* allocate_lot_cost_evenly: [ok, items]; zip(item_rows, allocations) pairs by position
allocate_lot_cost_evenly(db, lot_id) ==
    IF lot_id \notin DOMAIN db.lots THEN [ok |-> FALSE, items |-> db.items]
    ELSE LET item_rows == Ascending(LotItemIds(db.items, lot_id))
             allocations == split_amount_evenly(ToReal(db.lots[lot_id].total_cost), Len(item_rows))
             Position(id) == CHOOSE p \in 1..Len(item_rows) : item_rows[p] = id
         IN IF Len(item_rows) = 0 THEN [ok |-> FALSE, items |-> db.items]
            ELSE [ok |-> TRUE,
                  items |-> [k \in DOMAIN db.items |->
                      IF db.items[k].lot_id = Some(lot_id) /\ Position(k) <= Len(allocations)
                      THEN [db.items[k] EXCEPT !.purchase_price = ToReal(allocations[Position(k)])]
                      ELSE db.items[k]]]

\* int(text): blanks around, an optional sign, digits; None for a ValueError
ParseInt(text) ==
    LET v == Strip(text)
        signed == Len(v) > 0 /\ Ch(v, 1) \in {"-", "+"}
        body == IF signed THEN SubSeq(v, 2, Len(v)) ELSE v
    IN IF Len(body) = 0 \/ ~AllDigits(body) THEN None
       ELSE IF signed /\ Ch(v, 1) = "-" THEN Some(0 - DigitsValue(body))
       ELSE Some(DigitsValue(body))

\* str(n) of a natural number
RECURSIVE ToStr(_)
ToStr(n) == IF n < 10 THEN Ch(Digits, n + 1) ELSE ToStr(n \div 10) \o Ch(Digits, (n % 10) + 1)

\* text.strip() or None
OrNone(text) == IF Strip(text) = "" THEN None ELSE Some(Strip(text))

\* a row of items as lot_add_created_items and add_item insert it
NewItem(name, sku, purchase_price, purchase_date, purchase_source, status, listed_date, lot_id) ==
    [name |-> name, sku |-> sku, purchase_price |-> purchase_price,
     purchase_date |-> purchase_date, purchase_source |-> purchase_source, status |-> status,
     listed_date |-> listed_date, sale_price |-> None, sale_date |-> None,
     sold_marketplace |-> None, lot_id |-> lot_id]

\* `quantity` INSERTs of the same row, each taking the next AUTOINCREMENT id
InsertItems(db, quantity, row) ==
    [db EXCEPT
        !.items = [k \in DOMAIN db.items \cup (db.seq.items + 1)..(db.seq.items + quantity) |->
                      IF k \in DOMAIN db.items THEN db.items[k] ELSE row],
        !.seq.items = @ + quantity]

\* ------------------------------------------------------------------ lot handlers
\* Each POST handler is modelled in two parts: the conversion of the submitted form into
\* the handler's local variables (<handler>_fields), and the handler proper, which
\* validates them and writes the store.

\* the form of /lots/new and /lots/<lot_id>/edit as the handler reads it
lot_form_fields(form) ==
    [reference |-> Strip(form.reference),
     purchase_date |-> parse_date(form.purchase_date),
     purchase_source |-> normalize_purchase_source(Strip(form.purchase_source)),
     total_cost |-> parse_decimal(form.total_cost)]

\* POST /lots/new
split_box_wizard(f) ==
    IF f.reference = "" THEN Respond("Box reference is required.", Db)
    ELSE IF f.purchase_date = None
        THEN Respond("Purchase date must be in %d/%m/%Y format.", Db)
    ELSE IF f.purchase_source = "" THEN Respond("Purchase source is required.", Db)
    ELSE IF f.total_cost = NaN THEN Raise("InvalidOperation")
    ELSE IF f.total_cost = None \/ Get(f.total_cost) <= 0
        THEN Respond("Total box cost must be greater than 0.", Db)
    ELSE /\ seq.lots < MaxLots
         /\ LET lot_id == seq.lots + 1
                db1 == ensure_purchase_source(Db, f.purchase_source)
                db2 == [db1 EXCEPT
                           !.lots = Insert(@, lot_id,
                               [reference |-> f.reference,
                                purchase_date |-> Get(f.purchase_date),
                                purchase_source |-> f.purchase_source,
                                total_cost |-> ToReal(Get(f.total_cost)),
                                is_finalized |-> 0]),
                           !.seq.lots = lot_id]
            IN Respond("Box saved as open. Add items and finalise when ready.", db2)

\* an edit that also marks the box finalised
lot_edit_finalizing(lot_id, f) ==
    IF lot_id \notin DOMAIN lots THEN Respond("Box not found.", Db)
    ELSE IF lot_is_finalized(lots[lot_id])
        THEN Respond("Finalised boxes cannot be edited. Reopen first.", Db)
    ELSE IF f.reference = "" THEN Respond("Box reference is required.", Db)
    ELSE IF f.purchase_date = None
        THEN Respond("Purchase date must be in %d/%m/%Y format.", Db)
    ELSE IF f.purchase_source = "" THEN Respond("Purchase source is required.", Db)
    ELSE IF f.total_cost = NaN THEN Raise("InvalidOperation")
    ELSE IF f.total_cost = None \/ Get(f.total_cost) <= 0
        THEN Respond("Total box cost must be greater than 0.", Db)
    ELSE LET db1 == ensure_purchase_source(Db, f.purchase_source)
             db2 == [db1 EXCEPT
                        !.lots[lot_id].reference = f.reference,
                        !.lots[lot_id].purchase_date = Get(f.purchase_date),
                        !.lots[lot_id].purchase_source = f.purchase_source,
                        !.lots[lot_id].total_cost = ToReal(Get(f.total_cost)),
                        !.lots[lot_id].is_finalized = 1]
         IN Respond("Box details updated.", db2)

\* POST /lots/<lot_id>/edit
lot_edit(lot_id, f) ==
    IF lot_id \notin DOMAIN lots THEN Respond("Box not found.", Db)
    ELSE IF lot_is_finalized(lots[lot_id])
        THEN Respond("Finalised boxes cannot be edited. Reopen first.", Db)
    ELSE IF f.reference = "" THEN Respond("Box reference is required.", Db)
    ELSE IF f.purchase_date = None
        THEN Respond("Purchase date must be in %d/%m/%Y format.", Db)
    ELSE IF f.purchase_source = "" THEN Respond("Purchase source is required.", Db)
    ELSE IF f.total_cost = NaN THEN Raise("InvalidOperation")
    ELSE IF f.total_cost = None \/ Get(f.total_cost) <= 0
        THEN Respond("Total box cost must be greater than 0.", Db)
    ELSE LET db1 == ensure_purchase_source(Db, f.purchase_source)
             db2 == [db1 EXCEPT
                        !.lots[lot_id].reference = f.reference,
                        !.lots[lot_id].purchase_date = Get(f.purchase_date),
                        !.lots[lot_id].purchase_source = f.purchase_source,
                        !.lots[lot_id].total_cost = ToReal(Get(f.total_cost))]
         IN Respond("Box details updated.", db2)

\* the form of /lots/<lot_id>/items/create; a quantity that is no integer counts as 0
created_items_fields(form) ==
    [name |-> Strip(form.item_name),
     quantity |-> IF ParseInt(form.quantity) = None THEN 0 ELSE Get(ParseInt(form.quantity)),
     status |-> form.status]

\* POST /lots/<lot_id>/items/create
lot_add_created_items(lot_id, f) ==
    LET status == IF f.status \in STATUSES THEN f.status ELSE "Unlisted"
    IN IF lot_id \notin DOMAIN lots THEN Respond("Box not found.", Db)
       ELSE IF lot_is_finalized(lots[lot_id])
           THEN Respond("Reopen the box before adding items.", Db)
       ELSE IF f.name = "" THEN Respond("Item name is required.", Db)
       ELSE IF f.quantity < 1 \/ f.quantity > 200
           THEN Respond("Quantity must be between 1 and 200.", Db)
       ELSE /\ seq.items + f.quantity <= MaxItems
            /\ Respond("Items added to box.",
                   InsertItems(Db, f.quantity,
                       NewItem(f.name, None, 0, lots[lot_id].purchase_date,
                               lots[lot_id].purchase_source, status, None, Some(lot_id))))

\* the item_ids of /lots/<lot_id>/items/attach: the submitted values that are all digits
selected_ids_of(item_ids) ==
    {DigitsValue(v) : v \in {w \in item_ids : Len(w) > 0 /\ AllDigits(w)}}

\* an attach whose UPDATE has no `AND lot_id IS NULL`
lot_attach_assigned_items(lot_id, selected_ids) ==
    IF lot_id \notin DOMAIN lots THEN Respond("Box not found.", Db)
    ELSE IF lot_is_finalized(lots[lot_id])
        THEN Respond("Reopen the box before adding items.", Db)
    ELSE IF selected_ids = {} THEN Respond("Select at least one unassigned item.", Db)
    ELSE Respond("Existing items added to box.",
             [Db EXCEPT !.items = [k \in DOMAIN items |->
                 IF k \in selected_ids
                 THEN [items[k] EXCEPT !.lot_id = Some(lot_id)]
                 ELSE items[k]]])

\* POST /lots/<lot_id>/items/attach
lot_attach_existing_items(lot_id, selected_ids) ==
    IF lot_id \notin DOMAIN lots THEN Respond("Box not found.", Db)
    ELSE IF lot_is_finalized(lots[lot_id])
        THEN Respond("Reopen the box before adding items.", Db)
    ELSE IF selected_ids = {} THEN Respond("Select at least one unassigned item.", Db)
    ELSE Respond("Existing items added to box.",
             [Db EXCEPT !.items = [k \in DOMAIN items |->
                 IF k \in selected_ids /\ items[k].lot_id = None
                 THEN [items[k] EXCEPT !.lot_id = Some(lot_id)]
                 ELSE items[k]]])

\* a removal that does not look at is_finalized
lot_remove_item_unlocked(lot_id, item_id) ==
    IF lot_id \notin DOMAIN lots THEN Respond("Box not found.", Db)
    ELSE Respond("Item removed from box.",
             [Db EXCEPT !.items = [k \in DOMAIN items |->
                 IF k = item_id /\ items[k].lot_id = Some(lot_id)
                 THEN [items[k] EXCEPT !.lot_id = None]
                 ELSE items[k]]])

\* POST /lots/<lot_id>/items/<item_id>/remove
lot_remove_item(lot_id, item_id) ==
    IF lot_id \notin DOMAIN lots THEN Respond("Box not found.", Db)
    ELSE IF lot_is_finalized(lots[lot_id])
        THEN Respond("Reopen the box before removing items.", Db)
    ELSE Respond("Item removed from box.",
             [Db EXCEPT !.items = [k \in DOMAIN items |->
                 IF k = item_id /\ items[k].lot_id = Some(lot_id)
                 THEN [items[k] EXCEPT !.lot_id = None]
                 ELSE items[k]]])

\* a finalize that sets the flag whatever the allocation returned
lot_finalize_unchecked(lot_id) ==
    LET allocated == allocate_lot_cost_evenly(Db, lot_id)
    IN IF lot_id \notin DOMAIN lots THEN Respond("Box not found.", Db)
       ELSE IF lot_is_finalized(lots[lot_id]) THEN Respond("Box is already finalised.", Db)
       ELSE Respond("Box finalised and cost allocated evenly across items.",
                [Db EXCEPT !.items = allocated.items, !.lots[lot_id].is_finalized = 1])

\* a finalize that does not look at is_finalized
lot_finalize_again(lot_id) ==
    LET allocated == allocate_lot_cost_evenly(Db, lot_id)
    IN IF lot_id \notin DOMAIN lots THEN Respond("Box not found.", Db)
       ELSE IF ~allocated.ok THEN Respond("Add at least one item before finalising.", Db)
       ELSE Respond("Box finalised and cost allocated evenly across items.",
                [Db EXCEPT !.items = allocated.items, !.lots[lot_id].is_finalized = 1])

\* POST /lots/<lot_id>/finalize
lot_finalize(lot_id) ==
    LET allocated == allocate_lot_cost_evenly(Db, lot_id)
    IN IF lot_id \notin DOMAIN lots THEN Respond("Box not found.", Db)
       ELSE IF lot_is_finalized(lots[lot_id]) THEN Respond("Box is already finalised.", Db)
       ELSE IF ~allocated.ok THEN Respond("Add at least one item before finalising.", Db)
       ELSE Respond("Box finalised and cost allocated evenly across items.",
                [Db EXCEPT !.items = allocated.items, !.lots[lot_id].is_finalized = 1])

\* a reopen that also takes the allocated shares back
lot_reopen_reverting(lot_id) ==
    IF lot_id \notin DOMAIN lots THEN Respond("Box not found.", Db)
    ELSE IF ~lot_is_finalized(lots[lot_id]) THEN Respond("Box is already open.", Db)
    ELSE Respond("Box reopened. You can edit items and finalise again.",
             [Db EXCEPT !.lots[lot_id].is_finalized = 0,
                        !.items = [k \in DOMAIN items |->
                            IF items[k].lot_id = Some(lot_id)
                            THEN [items[k] EXCEPT !.purchase_price = 0]
                            ELSE items[k]]])

\* POST /lots/<lot_id>/reopen
lot_reopen(lot_id) ==
    IF lot_id \notin DOMAIN lots THEN Respond("Box not found.", Db)
    ELSE IF ~lot_is_finalized(lots[lot_id]) THEN Respond("Box is already open.", Db)
    ELSE Respond("Box reopened. You can edit items and finalise again.",
             [Db EXCEPT !.lots[lot_id].is_finalized = 0])

\* ------------------------------------------------------------------ finalize, statement by statement
\* The statements lot_finalize runs inside `with get_db() as conn`.  sqlite3 opens a
\* transaction before the first UPDATE and commits when the with-block is left; until then the
\* writes are held by the connection (txn) and the database other connections read is the
\* committed one (lots, items).  An interruption closes the connection without a commit.

InTransaction == txn # None /\ txn.status = "open"

\* fetch_lot, lot_is_finalized, and allocate_lot_cost_evenly up to its first UPDATE
finalize_begin(lot_id) ==
    /\ ~InTransaction
    /\ IF lot_id \notin DOMAIN lots THEN Respond("Box not found.", Db)
       ELSE IF lot_is_finalized(lots[lot_id]) THEN Respond("Box is already finalised.", Db)
       ELSE IF LotItemIds(items, lot_id) = {}
           THEN Respond("Add at least one item before finalising.", Db)
       ELSE /\ txn' = [status |-> "open", lot_id |-> lot_id, lots |-> lots, items |-> items,
                       item_rows |-> Ascending(LotItemIds(items, lot_id)),
                       allocations |->
                           split_amount_evenly(ToReal(lots[lot_id].total_cost),
                                               Cardinality(LotItemIds(items, lot_id))),
                       next |-> 1, flagged |-> FALSE]
            /\ UNCHANGED <<lots, items, listings, purchase_sources, seq, flash, split_call,
                           normalize_call, summary>>

\* an UPDATE of a connection in autocommit mode: written to the database at once
finalize_update_item_autocommit ==
    /\ InTransaction
    /\ txn.next <= Len(txn.item_rows)
    /\ txn' = [txn EXCEPT
                  !.items[txn.item_rows[txn.next]].purchase_price =
                      ToReal(txn.allocations[txn.next]),
                  !.next = @ + 1]
    /\ items' = [items EXCEPT ![txn.item_rows[txn.next]].purchase_price =
                                  ToReal(txn.allocations[txn.next])]
    /\ UNCHANGED <<lots, listings, purchase_sources, seq, flash, split_call, normalize_call, summary>>

\* one turn of `for row, allocation in zip(item_rows, allocations)`: UPDATE items SET
\* purchase_price
finalize_update_item ==
    /\ InTransaction
    /\ txn.next <= Len(txn.item_rows)
    /\ txn' = [txn EXCEPT
                  !.items[txn.item_rows[txn.next]].purchase_price =
                      ToReal(txn.allocations[txn.next]),
                  !.next = @ + 1]
    /\ UNCHANGED <<lots, items, listings, purchase_sources, seq, flash, split_call,
                   normalize_call, summary>>

\* UPDATE lots SET is_finalized = 1
finalize_update_lot ==
    /\ InTransaction
    /\ txn.next > Len(txn.item_rows)
    /\ ~txn.flagged
    /\ txn' = [txn EXCEPT !.lots[txn.lot_id].is_finalized = 1, !.flagged = TRUE]
    /\ UNCHANGED <<lots, items, listings, purchase_sources, seq, flash, split_call,
                   normalize_call, summary>>

\* the end of the with-block: commit, then the flash
finalize_commit ==
    /\ InTransaction
    /\ txn.flagged
    /\ lots' = txn.lots
    /\ items' = txn.items
    /\ txn' = None
    /\ flash' = "Box finalised and cost allocated evenly across items."
    /\ UNCHANGED <<listings, purchase_sources, seq, split_call, normalize_call, summary>>

\* the request ends before the commit (an exception, the process killed): the writes of the
\* connection are rolled back
finalize_interrupt ==
    /\ InTransaction
    /\ txn' = [txn EXCEPT !.status = "rolled back"]
    /\ UNCHANGED <<lots, items, listings, purchase_sources, seq, flash, split_call,
                   normalize_call, summary>>

\* ------------------------------------------------------------------ item handlers

\* the form of /item/new and /item/<item_id>/edit as the handler reads it
item_form_fields(form) ==
    [name |-> Strip(form.name),
     sku |-> OrNone(form.sku),
     purchase_price |-> parse_decimal(form.purchase_price),
     purchase_date |-> parse_date(form.purchase_date),
     purchase_source |-> normalize_purchase_source(Strip(form.purchase_source)),
     status |-> form.status,
     listed_date |-> parse_date(form.listed_date),
     listed_date_raw |-> Strip(form.listed_date),
     add_multiple |-> form.add_multiple = "on",
     quantity |-> ParseInt(form.quantity)]

\* POST /item/new
add_item(f) ==
    LET quantity == IF f.add_multiple THEN Get(f.quantity) ELSE 1
    IN IF f.name = "" THEN Respond("Item name is required.", Db)
       ELSE IF f.purchase_price = None THEN Respond("Purchase price must be a number.", Db)
       ELSE IF f.purchase_date = None
           THEN Respond("Purchase date must be in %d/%m/%Y format.", Db)
       ELSE IF f.purchase_source = "" THEN Respond("Purchase source is required.", Db)
       ELSE IF f.status \notin STATUSES THEN Respond("Invalid status.", Db)
       ELSE IF f.listed_date_raw # "" /\ f.listed_date = None
           THEN Respond("Listed date must be in %d/%m/%Y format.", Db)
       ELSE IF f.add_multiple /\ f.quantity = None
           THEN Respond("Quantity must be a whole number.", Db)
       ELSE IF f.add_multiple /\ quantity < 2
           THEN Respond("Quantity must be at least 2 when adding multiple items.", Db)
       ELSE IF f.add_multiple /\ quantity > 200
           THEN Respond("Quantity is too large. Please use 200 or less.", Db)
       ELSE IF f.purchase_price = NaN THEN Raise("IntegrityError")
       ELSE /\ seq.items + quantity <= MaxItems
            /\ Respond(IF quantity = 1 THEN "Item added." ELSE ToStr(quantity) \o " items added.",
                   InsertItems(ensure_purchase_source(Db, f.purchase_source), quantity,
                       NewItem(f.name, f.sku, ToReal(Get(f.purchase_price)),
                               Get(f.purchase_date), f.purchase_source, f.status,
                               f.listed_date, None)))

\* POST /item/<item_id>/edit
edit_item(item_id, f) ==
    IF item_id \notin DOMAIN items THEN Respond("Item not found.", Db)
    ELSE IF f.name = "" THEN Respond("Item name is required.", Db)
    ELSE IF f.purchase_price = None THEN Respond("Purchase price must be a number.", Db)
    ELSE IF f.purchase_date = None
        THEN Respond("Purchase date must be in %d/%m/%Y format.", Db)
    ELSE IF f.purchase_source = "" THEN Respond("Purchase source is required.", Db)
    ELSE IF f.status \notin STATUSES THEN Respond("Invalid status.", Db)
    ELSE IF f.listed_date_raw # "" /\ f.listed_date = None
        THEN Respond("Listed date must be in %d/%m/%Y format.", Db)
    ELSE IF f.purchase_price = NaN THEN Raise("IntegrityError")
    ELSE LET db1 == ensure_purchase_source(Db, f.purchase_source)
         IN Respond("Item updated.",
                [db1 EXCEPT !.items[item_id] =
                    [@ EXCEPT !.name = f.name, !.sku = f.sku,
                              !.purchase_price = ToReal(Get(f.purchase_price)),
                              !.purchase_date = Get(f.purchase_date),
                              !.purchase_source = f.purchase_source,
                              !.status = f.status, !.listed_date = f.listed_date]])

\* a delete on a connection without PRAGMA foreign_keys = ON: the listings stay
delete_item_without_cascade(item_id) ==
    IF item_id \notin DOMAIN items THEN Respond("Item not found.", Db)
    ELSE Respond("Item deleted.", [Db EXCEPT !.items = Delete(@, {item_id})])

\* POST /item/<item_id>/delete; the listings go with the item (ON DELETE CASCADE)
delete_item(item_id) ==
    IF item_id \notin DOMAIN items THEN Respond("Item not found.", Db)
    ELSE Respond("Item deleted.",
             [Db EXCEPT !.items = Delete(@, {item_id}),
                        !.listings = Delete(@, {k \in DOMAIN listings :
                                                   listings[k].item_id = item_id})])

\* ------------------------------------------------------------------ listing and sale handlers

\* the form of /item/<item_id>/listing as the handler reads it; today is
\* datetime.now().strftime(DATE_FORMAT), which stands in for a date that is blank or unparseable
listing_form_fields(form, today) ==
    LET listing_date == IF Strip(form.listing_date) # "" THEN parse_date(form.listing_date)
                        ELSE None
    IN [listing_date |-> IF listing_date = None THEN Some(today) ELSE listing_date,
        sku |-> OrNone(form.sku),
        listings_to_add |->
            SelectSeq(<< <<"eBay", Strip(form.ebay_url)>>, <<"Vinted", Strip(form.vinted_url)>>,
                         <<"Adverts.ie", Strip(form.adverts_url)>> >>,
                      LAMBDA pair : pair[2] # "")]

\* an add-listing that inserts the listings and leaves the item's status and listed_date
add_listing_only(item_id, f) ==
    IF f.sku = None THEN Respond("SKU is required to add a listing.", Db)
    ELSE IF Len(f.listings_to_add) = 0 THEN Respond("Please enter at least one listing URL.", Db)
    ELSE IF f.listing_date = None THEN Respond("Listing date must be in %d/%m/%Y format.", Db)
    ELSE IF item_id \notin DOMAIN items THEN Raise("IntegrityError")
    ELSE /\ seq.listings + Len(f.listings_to_add) <= MaxListings
         /\ Respond("Listing added.",
                [Db EXCEPT
                    !.listings = [k \in DOMAIN listings \cup
                                      (seq.listings + 1)..(seq.listings + Len(f.listings_to_add)) |->
                        IF k \in DOMAIN listings THEN listings[k]
                        ELSE [item_id |-> item_id,
                              marketplace |-> f.listings_to_add[k - seq.listings][1],
                              listing_url |-> f.listings_to_add[k - seq.listings][2],
                              listing_date |-> f.listing_date]],
                    !.seq.listings = @ + Len(f.listings_to_add),
                    !.items[item_id].sku = f.sku])

\* POST /item/<item_id>/listing; the INSERT of a listing for an item that does not exist
\* fails on the foreign key
add_listing(item_id, f) ==
    IF f.sku = None THEN Respond("SKU is required to add a listing.", Db)
    ELSE IF Len(f.listings_to_add) = 0 THEN Respond("Please enter at least one listing URL.", Db)
    ELSE IF f.listing_date = None THEN Respond("Listing date must be in %d/%m/%Y format.", Db)
    ELSE IF item_id \notin DOMAIN items THEN Raise("IntegrityError")
    ELSE /\ seq.listings + Len(f.listings_to_add) <= MaxListings
         /\ Respond("Listing added.",
                [Db EXCEPT
                    !.listings = [k \in DOMAIN listings \cup
                                      (seq.listings + 1)..(seq.listings + Len(f.listings_to_add)) |->
                        IF k \in DOMAIN listings THEN listings[k]
                        ELSE [item_id |-> item_id,
                              marketplace |-> f.listings_to_add[k - seq.listings][1],
                              listing_url |-> f.listings_to_add[k - seq.listings][2],
                              listing_date |-> f.listing_date]],
                    !.seq.listings = @ + Len(f.listings_to_add),
                    !.items[item_id] = [@ EXCEPT !.sku = f.sku, !.status = "Listed",
                                                 !.listed_date = f.listing_date]])

\* the form of /item/<item_id>/sell as the handler reads it
sale_form_fields(form) ==
    [sale_price |-> parse_decimal(form.sale_price),
     sale_date |-> parse_date(form.sale_date),
     sold_marketplace |-> form.sold_marketplace]

\* UPDATE items SET status = 'Sold', sale_price = ?, sale_date = ?, sold_marketplace = ?
\* WHERE id = ?
SetSold(tbl, item_id, sale_price, sale_date, sold_marketplace) ==
    [k \in DOMAIN tbl |->
        IF k = item_id
        THEN [tbl[k] EXCEPT !.status = "Sold", !.sale_price = Bind(sale_price),
                            !.sale_date = sale_date, !.sold_marketplace = Some(sold_marketplace)]
        ELSE tbl[k]]

\* POST /item/<item_id>/sell
mark_sold(item_id, f) ==
    IF f.sale_price = None THEN Respond("Sale price must be a number.", Db)
    ELSE IF f.sale_date = None THEN Respond("Sale date must be in %d/%m/%Y format.", Db)
    ELSE IF f.sold_marketplace \notin MARKETPLACES
        THEN Respond("Sold marketplace is required.", Db)
    ELSE Respond("Item marked as sold.",
             [Db EXCEPT !.items = SetSold(@, item_id, f.sale_price, f.sale_date,
                                          f.sold_marketplace)])

\* the form of /item/<item_id>/quick-update as the handler reads it
quick_update_fields(form, today) ==
    [sku |-> OrNone(form.sku),
     sale_price |-> IF Strip(form.sale_price) # "" THEN parse_decimal(form.sale_price) ELSE None,
     sold_marketplace |-> Strip(form.sold_marketplace),
     sale_date |-> IF Strip(form.sale_date) # "" THEN parse_date(form.sale_date)
                   ELSE Some(today)]

\* POST /item/<item_id>/quick-update; a return inside `with get_db() as conn` leaves the block
\* without an exception, so the connection commits what was written before it
quick_update_item(item_id, f) ==
    LET db1 == IF f.sku # None THEN [Db EXCEPT !.items[item_id].sku = f.sku] ELSE Db
    IN IF item_id \notin DOMAIN items THEN Respond("Item not found.", Db)
       ELSE IF f.sale_price = None THEN Respond("Item updated.", db1)
       ELSE IF f.sold_marketplace \notin MARKETPLACES
           THEN Respond("Sold marketplace is required to mark as sold.", db1)
       ELSE IF f.sale_date = None
           THEN Respond("Sale date must be in %d/%m/%Y format.", db1)
       ELSE Respond("Item updated as sold.",
                [db1 EXCEPT !.items = SetSold(@, item_id, f.sale_price, f.sale_date,
                                              f.sold_marketplace)])

\* ------------------------------------------------------------------ purchase-source handlers

\* SELECT ... FROM purchase_sources WHERE name = ?
SourceExists(tbl, name) == \E k \in DOMAIN tbl : tbl[k].name = name

\* UPDATE items SET purchase_source = ? WHERE purchase_source = ?
Reassign(tbl, to_name, from_name) ==
    [k \in DOMAIN tbl |->
        IF tbl[k].purchase_source = from_name
        THEN [tbl[k] EXCEPT !.purchase_source = to_name]
        ELSE tbl[k]]

\* the purchase_source_name of /purchase-sources and /purchase-sources/<id>/rename
source_name_field(raw_name) == normalize_purchase_source(raw_name)

\* POST /purchase-sources
add_purchase_source(name) ==
    IF name = "" THEN Respond("Purchase source name is required.", Db)
    ELSE IF SourceExists(purchase_sources, name)
        THEN Respond("Purchase source already exists.", Db)
    ELSE Respond("Purchase source added.",
             [Db EXCEPT
                 !.purchase_sources =
                     Insert(@, seq.purchase_sources + 1, [name |-> name, active |-> 1]),
                 !.seq.purchase_sources = @ + 1])

\* a rename that leaves the items with the old name
rename_purchase_source_record_only(source_id, name) ==
    IF name = "" THEN Respond("Purchase source name is required.", Db)
    ELSE IF source_id \notin DOMAIN purchase_sources
        THEN Respond("Purchase source not found.", Db)
    ELSE IF SourceExists(purchase_sources, name)
        THEN Respond("Purchase source already exists.", Db)
    ELSE Respond("Purchase source updated.",
             [Db EXCEPT !.purchase_sources[source_id].name = name])

\* POST /purchase-sources/<source_id>/rename
rename_purchase_source(source_id, name) ==
    IF name = "" THEN Respond("Purchase source name is required.", Db)
    ELSE IF source_id \notin DOMAIN purchase_sources
        THEN Respond("Purchase source not found.", Db)
    ELSE IF SourceExists(purchase_sources, name)
        THEN Respond("Purchase source already exists.", Db)
    ELSE Respond("Purchase source updated.",
             [Db EXCEPT
                 !.purchase_sources[source_id].name = name,
                 !.items = Reassign(@, name, purchase_sources[source_id].name)])

\* a merge that keeps the record it merged from
merge_purchase_sources_keeping(from_id, to_id) ==
    IF from_id = None \/ to_id = None \/ from_id = Some(0) \/ to_id = Some(0) \/ from_id = to_id
    THEN Respond("Please choose two different sources to merge.", Db)
    ELSE IF Get(from_id) \notin DOMAIN purchase_sources \/ Get(to_id) \notin DOMAIN purchase_sources
        THEN Respond("Purchase source not found.", Db)
    ELSE Respond("Purchase sources merged.",
             [Db EXCEPT
                 !.items = Reassign(@, purchase_sources[Get(to_id)].name,
                                    purchase_sources[Get(from_id)].name)])

\* POST /purchase-sources/merge; from_id and to_id are None when the field is no integer
merge_purchase_sources(from_id, to_id) ==
    IF from_id = None \/ to_id = None \/ from_id = Some(0) \/ to_id = Some(0) \/ from_id = to_id
    THEN Respond("Please choose two different sources to merge.", Db)
    ELSE IF Get(from_id) \notin DOMAIN purchase_sources \/ Get(to_id) \notin DOMAIN purchase_sources
        THEN Respond("Purchase source not found.", Db)
    ELSE Respond("Purchase sources merged.",
             [Db EXCEPT
                 !.items = Reassign(@, purchase_sources[Get(to_id)].name,
                                    purchase_sources[Get(from_id)].name),
                 !.purchase_sources = Delete(@, {Get(from_id)})])

fallback_name == "Other"

\* a delete that leaves the items with the deleted name
delete_purchase_source_record_only(source_id) ==
    IF source_id \notin DOMAIN purchase_sources THEN Respond("Purchase source not found.", Db)
    ELSE IF purchase_sources[source_id].name = fallback_name
        THEN Respond("Cannot delete the fallback purchase source.", Db)
    ELSE LET db1 == ensure_purchase_source(Db, fallback_name)
         IN Respond("Purchase source deleted.",
                [db1 EXCEPT !.purchase_sources = Delete(@, {source_id})])

\* POST /purchase-sources/<source_id>/delete
delete_purchase_source(source_id) ==
    IF source_id \notin DOMAIN purchase_sources THEN Respond("Purchase source not found.", Db)
    ELSE IF purchase_sources[source_id].name = fallback_name
        THEN Respond("Cannot delete the fallback purchase source.", Db)
    ELSE LET db1 == ensure_purchase_source(Db, fallback_name)
         IN Respond("Purchase source deleted.",
                [db1 EXCEPT
                    !.items = Reassign(@, fallback_name, purchase_sources[source_id].name),
                    !.purchase_sources = Delete(@, {source_id})])

\* ------------------------------------------------------------------ a start of the application

\* the names of a set in some order
RECURSIVE InSomeOrder(_)
InSomeOrder(names) ==
    IF names = {} THEN <<>>
    ELSE LET name == CHOOSE n \in names : TRUE
         IN <<name>> \o InSomeOrder(names \ {name})

\* init_db() on a database that exists: INSERT OR IGNORE INTO purchase_sources of the seeded
\* names, then of the DISTINCT purchase_source of the items
init_db_again(db) ==
    LET present == {db.purchase_sources[k].name : k \in DOMAIN db.purchase_sources}
        seeded == {PURCHASE_SOURCE_OPTIONS[k] : k \in DOMAIN PURCHASE_SOURCE_OPTIONS}
        used == {db.items[k].purchase_source : k \in DOMAIN db.items} \ {""}
        added == SelectSeq(PURCHASE_SOURCE_OPTIONS, LAMBDA name : name \notin present)
                     \o InSomeOrder(used \ (present \cup seeded))
        last == db.seq.purchase_sources
    IN [db EXCEPT
           !.purchase_sources =
               [k \in DOMAIN db.purchase_sources \cup (last + 1)..(last + Len(added)) |->
                   IF k \in DOMAIN db.purchase_sources THEN db.purchase_sources[k]
                   ELSE [name |-> added[k - last], active |-> 1]],
           !.seq.purchase_sources = last + Len(added)]

\* UPDATE items SET status = 'Sold' WHERE sale_price IS NOT NULL AND status = 'Listed'
reconcile_sold_status(db) ==
    [db EXCEPT !.items = [k \in DOMAIN db.items |->
        IF db.items[k].sale_price # None /\ db.items[k].status = "Listed"
        THEN [db.items[k] EXCEPT !.status = "Sold"]
        ELSE db.items[k]]]

\* the module is loaded: init_db(), then reconcile_sold_status()
restart ==
    /\ Commit(reconcile_sold_status(init_db_again(Db)))
    /\ UNCHANGED <<flash, split_call, normalize_call, txn, summary>>

\* ------------------------------------------------------------------ the item list

\* value LIKE '%pattern%'; NULL LIKE ... is not true
Like(value, pattern) == value # None /\ Contains(Lower(Get(value)), Lower(pattern))

\* the rows of `items LEFT JOIN listings ON listings.item_id = items.id` as pairs of an item
\* id and a listing id, None for an item without listings
JoinedRows(db) ==
    LET ListingsOf(item_id) == {k \in DOMAIN db.listings : db.listings[k].item_id = item_id}
    IN UNION { IF ListingsOf(item_id) = {} THEN { <<item_id, None>> }
               ELSE { <<item_id, Some(listing_id)>> : listing_id \in ListingsOf(item_id) } :
               item_id \in DOMAIN db.items }

\* the WHERE clause fetch_summary builds from the filters that are set
RowPasses(db, row, status, marketplace, listing_url, search) ==
    LET item == db.items[row[1]]
        listing_marketplace == IF row[2] = None THEN None
                               ELSE Some(db.listings[Get(row[2])].marketplace)
        url == IF row[2] = None THEN None ELSE Some(db.listings[Get(row[2])].listing_url)
    IN /\ status # None => item.status = Get(status)
       /\ marketplace # None => listing_marketplace = marketplace
       /\ listing_url # None => Like(url, Get(listing_url))
       /\ search # None => (Like(Some(item.name), Get(search)) \/ Like(url, Get(search)))

\* SUM(items.purchase_price) or SUM(COALESCE(items.sale_price, 0)) over rows
RECURSIVE SumRows(_, _, _)
SumRows(db, rows, column) ==
    IF rows = {} THEN 0
    ELSE LET row == CHOOSE r \in rows : TRUE
             item == db.items[row[1]]
             value == IF column = "purchase_price" THEN item.purchase_price
                      ELSE IF item.sale_price = None THEN 0 ELSE Get(item.sale_price)
         IN value + SumRows(db, rows \ {row}, column)

\* roi is profit / total_purchase * 100, kept as the pair numerator, denominator
fetch_summary(db, status, marketplace, listing_url, search) ==
    LET rows == {row \in JoinedRows(db) :
                     RowPasses(db, row, status, marketplace, listing_url, search)}
        total_purchase == SumRows(db, rows, "purchase_price")
        total_sale == SumRows(db, rows, "sale_price")
        profit == total_sale - total_purchase
    IN [total_purchase |-> total_purchase, total_sale |-> total_sale, profit |-> profit,
        roi |-> IF total_purchase # 0 THEN <<profit * 100, total_purchase>> ELSE <<0, 1>>]

\* the query string of GET / as index reads it: an empty value is no filter
index_args(args) ==
    [status |-> IF args.status = "" THEN None ELSE Some(args.status),
     marketplace |-> IF args.marketplace = "" THEN None ELSE Some(args.marketplace),
     listing_url |-> OrNone(args.listing_url),
     search |-> OrNone(args.search)]

\* GET /: the summary shown above the item list
index(a) ==
    /\ summary' = Some([args |-> a,
                        totals |-> fetch_summary(Db, a.status, a.marketplace, a.listing_url,
                                                 a.search)])
    /\ UNCHANGED <<lots, items, listings, purchase_sources, seq, flash, split_call,
                   normalize_call, txn>>

\* ------------------------------------------------------------------ CSV import

\* one row of the file as the loop body reads it; new_listings holds the (marketplace,
\* url) pairs with a url, in the order eBay, Vinted, Adverts.ie
csv_row_fields(row) ==
    [name |-> Strip(row.name),
     sku |-> OrNone(row.sku),
     purchase_price |-> parse_decimal(row.purchase_price),
     purchase_date |-> parse_date(row.purchase_date),
     purchase_source |-> normalize_purchase_source(Strip(row.purchase_source)),
     status |-> IF Strip(row.status) = "" THEN "Unlisted" ELSE Strip(row.status),
     listed_date |-> parse_date(row.listed_date),
     new_listings |->
         SelectSeq(<< <<"eBay", Strip(row.ebay_url)>>, <<"Vinted", Strip(row.vinted_url)>>,
                      <<"Adverts.ie", Strip(row.adverts_url)>> >>,
                   LAMBDA pair : pair[2] # ""),
     sale_price |-> parse_decimal(row.sale_price),
     sale_date |-> parse_date(row.sale_date),
     sold_marketplace |-> OrNone(row.sold_marketplace)]

\* the loop body of import_csv: the database and the count after one row
ImportRow(st, r) ==
    LET status == IF r.status \in STATUSES THEN r.status ELSE "Unlisted"
        has_listing == Len(r.new_listings) > 0
        final_status == IF r.sale_price # None THEN "Sold"
                        ELSE IF has_listing THEN "Listed" ELSE status
        listed_date == IF has_listing /\ r.listed_date = None
                       THEN r.purchase_date ELSE r.listed_date
        item_id == st.db.seq.items + 1
        db1 == ensure_purchase_source(st.db, r.purchase_source)
        first == db1.seq.listings
        db2 == [db1 EXCEPT
                   !.items = Insert(@, item_id,
                       [name |-> r.name, sku |-> r.sku,
                        purchase_price |-> ToReal(Get(r.purchase_price)),
                        purchase_date |-> Get(r.purchase_date),
                        purchase_source |-> r.purchase_source, status |-> final_status,
                        listed_date |-> listed_date,
                        sale_price |-> Bind(r.sale_price),
                        sale_date |-> r.sale_date,
                        sold_marketplace |-> r.sold_marketplace,
                        lot_id |-> None]),
                   !.seq.items = item_id,
                   !.listings = [k \in DOMAIN db1.listings \cup
                                     (first + 1)..(first + Len(r.new_listings)) |->
                       IF k \in DOMAIN db1.listings THEN db1.listings[k]
                       ELSE [item_id |-> item_id,
                             marketplace |-> r.new_listings[k - first][1],
                             listing_url |-> r.new_listings[k - first][2],
                             listing_date |-> listed_date]],
                   !.seq.listings = first + Len(r.new_listings)]
    IN IF r.name = "" THEN st
       ELSE IF r.purchase_price = None \/ r.purchase_date = None \/ r.purchase_source = ""
           THEN st
       ELSE IF r.purchase_price = NaN THEN [st EXCEPT !.raised = TRUE]
       ELSE [st EXCEPT !.db = db2, !.rows_inserted = @ + 1]

RECURSIVE ImportRows(_, _)
ImportRows(st, rows) ==
    IF Len(rows) = 0 \/ st.raised THEN st
    ELSE ImportRows(ImportRow(st, Head(rows)), Tail(rows))

\* POST /import; file is None or [fieldnames, rows], the rows as csv_row_fields reads them
import_csv(file) ==
    IF file = None THEN Respond("Please choose a CSV file.", Db)
    ELSE IF ~({"name", "purchase_price", "purchase_date", "purchase_source"}
                 \subseteq Get(file).fieldnames)
        THEN Respond("CSV missing required columns.", Db)
    ELSE /\ seq.items + Len(Get(file).rows) <= MaxItems
         /\ LET st == ImportRows([db |-> Db, rows_inserted |-> 0, raised |-> FALSE],
                                 Get(file).rows)
            IN IF st.raised THEN Raise("IntegrityError")
               ELSE /\ st.db.seq.listings <= MaxListings
                    /\ Respond("Imported " \o ToStr(st.rows_inserted) \o " items.", st.db)

\* ------------------------------------------------------------------ the batch script

\* scripts/normalize_purchase_sources.py main(): `changes` holds (normalized, item_id, source)
\* for the rows whose source is not its normal form
normalize_script(apply) ==
    LET rows == {<<normalize_purchase_source(items[k].purchase_source), k,
                   items[k].purchase_source>> : k \in DOMAIN items}
        changes == {c \in rows : c[3] # c[1]}
        Normalized(k) == (CHOOSE c \in changes : c[2] = k)[1]
    IN IF changes = {} \/ ~apply
       THEN Respond("Dry run only. Re-run with --apply to update the database.", Db)
       ELSE /\ \A c \in changes : Len(c[1]) <= MaxSourceLen
            /\ Respond("Updated " \o ToStr(Cardinality(changes)) \o " rows.",
                   [Db EXCEPT !.items = [k \in DOMAIN items |->
                       IF \E c \in changes : c[2] = k
                       THEN [items[k] EXCEPT !.purchase_source = Normalized(k)]
                       ELSE items[k]]])

\* ------------------------------------------------------------------ a direct call of the split

split_amount_evenly_call ==
    /\ ~split_call.done
    /\ split_call' = [split_call EXCEPT
                          !.values = split_amount_evenly(split_call.total, split_call.count),
                          !.done = TRUE]
    /\ UNCHANGED <<lots, items, listings, purchase_sources, seq, flash, normalize_call, txn, summary>>

\* ------------------------------------------------------------------ requests of the lot lifecycle

LotForm(reference, purchase_date, purchase_source, total_cost) ==
    [reference |-> reference, purchase_date |-> purchase_date,
     purchase_source |-> purchase_source, total_cost |-> total_cost]

LotForms ==
    { LotForm("Box A", "01/02/2024", "fb", "0.01"),
      LotForm(" Box A ", "2024-02-01", "Facebook", "0.005"),
      LotForm("Box A", "01/02/2024", "fb", "0") }

LotRequests == { lot_form_fields(form) : form \in LotForms }

CreateForm(item_name, quantity, status) ==
    [item_name |-> item_name, quantity |-> quantity, status |-> status]

CreateForms ==
    { CreateForm("Mug", "1", "Unlisted"), CreateForm(" Mug", "2", "Gone") }

CreateRequests == { created_items_fields(form) : form \in CreateForms }

LotIds == 1..MaxLots

ItemIds == 1..MaxItems

AttachSelections ==
    { {ToStr(k)} : k \in ItemIds } \cup { {ToStr(1), ToStr(2), "x"} }

AttachRequests == { selected_ids_of(item_ids) : item_ids \in AttachSelections }

ItemForm(name, purchase_price, purchase_date, purchase_source, status, listed_date, add_multiple, quantity) ==
    [name |-> name, sku |-> "", purchase_price |-> purchase_price,
     purchase_date |-> purchase_date, purchase_source |-> purchase_source, status |-> status,
     listed_date |-> listed_date, add_multiple |-> add_multiple, quantity |-> quantity]

ItemForms ==
    { ItemForm("Mug", "0.01", "01/02/2024", "fb", "Unlisted", "", "", "1"),
      ItemForm("Mug", "0,01", "01/02/2024", "fb", "Unlisted", "", "", "1") }

ItemRequests == { item_form_fields(form) : form \in ItemForms }

CsvRow(name, purchase_price, purchase_date, purchase_source) ==
    [name |-> name, sku |-> "", purchase_price |-> purchase_price,
     purchase_date |-> purchase_date, purchase_source |-> purchase_source, status |-> "",
     listed_date |-> "", ebay_url |-> "", vinted_url |-> "", adverts_url |-> "",
     sale_price |-> "", sale_date |-> "", sold_marketplace |-> ""]

CsvColumns == {"name", "sku", "purchase_price", "purchase_date", "purchase_source", "status"}

CsvFile(fieldnames, rows) ==
    Some([fieldnames |-> fieldnames,
          rows |-> [k \in 1..Len(rows) |-> csv_row_fields(rows[k])]])

CsvFiles ==
    { None,
      CsvFile(CsvColumns, << CsvRow("Mug", "n/a", "01/02/2024", "fb"),
                             CsvRow("Mug", "0.01", "2024-02-01", "facebook") >>),
      CsvFile(CsvColumns, << CsvRow("Mug", "0.01", "01/02/2024", "fb"),
                             CsvRow("Cup", "NaN", "01/02/2024", "fb") >>) }

Next ==
    \/ \E f \in LotRequests : split_box_wizard(f)
    \/ \E lot_id \in LotIds, f \in LotRequests : lot_edit(lot_id, f)
    \/ \E lot_id \in LotIds, f \in CreateRequests : lot_add_created_items(lot_id, f)
    \/ \E lot_id \in LotIds, selected_ids \in AttachRequests :
           lot_attach_existing_items(lot_id, selected_ids)
    \/ \E lot_id \in LotIds, item_id \in ItemIds : lot_remove_item(lot_id, item_id)
    \/ \E lot_id \in LotIds : lot_finalize(lot_id)
    \/ \E lot_id \in LotIds : lot_reopen(lot_id)
    \/ \E f \in ItemRequests : add_item(f)
    \/ \E item_id \in ItemIds, f \in ItemRequests : edit_item(item_id, f)
    \/ \E item_id \in ItemIds : delete_item(item_id)
    \/ \E file \in CsvFiles : import_csv(file)

Spec == Init /\ [][Next]_vars

\* ------------------------------------------------------------------ direct calls of the split

SplitTotals == (0 - 25)..MaxSplitMills \cup {10000, 10005, 10015, 10025}

SplitCounts == (0 - 1)..MaxSplitCount

InitSplit ==
    /\ init_db
    /\ flash = ""
    /\ normalize_call = NoNormalizeCall
    /\ txn = None
    /\ summary = None
    /\ \E total \in SplitTotals, count \in SplitCounts :
           split_call = [total |-> total, count |-> count, values |-> <<>>, done |-> FALSE]

NextSplit == split_amount_evenly_call

SpecSplit == InitSplit /\ [][NextSplit]_vars

\* ------------------------------------------------------------------ calls of the normalizer

\* every space doubled
RECURSIVE Widen(_)
Widen(s) ==
    IF Len(s) = 0 THEN ""
    ELSE (IF Ch(s, 1) = " " THEN "  " ELSE Ch(s, 1)) \o Widen(SubSeq(s, 2, Len(s)))

\* a text as a user may type it: in any case, with wider gaps
Forms(text) == {text, Lower(text), Upper(text), Title(text), Widen(text)}

\* ... and with spaces around it
Padded(text) == {text, " " \o text \o "  "}

PrefixSources ==
    { "SVP Bray", "Vision Ireland Bray", "Vision Athy", "Sue Ryder Athy",
      "Cancer Research Bray", "Cancer Athy", "Car Boot Athy", "Oxfam Dun Laoghaire",
      "Jack and Jill Athy", "Enable Bray", "Barnardos Athy", "Ark Athy" }

UnmatchedSources == { "Random Shop", "eBay" }

NormalizeInputs ==
    {"", " ", "   "} \cup
    UNION { Padded(f) : f \in UNION { Forms(text) : text \in DOMAIN replacements \cup
                                                       PrefixSources \cup UnmatchedSources } }

InitNormalize ==
    /\ init_db
    /\ flash = ""
    /\ split_call = NoCall
    /\ txn = None
    /\ summary = None
    /\ \E value \in NormalizeInputs :
           normalize_call = [value |-> value, result |-> "", done |-> FALSE]

normalize_purchase_source_call ==
    /\ ~normalize_call.done
    /\ normalize_call' = [value |-> normalize_call.value,
                          result |-> normalize_purchase_source(normalize_call.value),
                          done |-> TRUE]
    /\ UNCHANGED <<lots, items, listings, purchase_sources, seq, flash, split_call, txn, summary>>

NextNormalize == normalize_purchase_source_call

SpecNormalize == InitNormalize /\ [][NextNormalize]_vars

\* ------------------------------------------------------------------ sources that match several rules

OverlappingSources ==
    { "SVP Car Boot", "Vision Ireland Auction", "Vision Thrift", "Sue Ryder Wholesale",
      "Cancer Research Thrift", "Cancer Auction", "Car Boot Auction", "Carboot Thrift",
      "Auction Wholesale", "Wholesale Thrift", "Oxfam Thrift", "Jack and Jill Carboot",
      "Enable Auction Downs", "Barnardos Wholesale Vintage", "Ark Thrift", "Oxfam Auction" }

OverlappingInputs == UNION { Padded(f) : f \in UNION { Forms(text) : text \in OverlappingSources } }

InitOverlapping ==
    /\ init_db
    /\ flash = ""
    /\ split_call = NoCall
    /\ txn = None
    /\ summary = None
    /\ \E value \in OverlappingInputs :
           normalize_call = [value |-> value, result |-> "", done |-> FALSE]

SpecOverlapping == InitOverlapping /\ [][NextNormalize]_vars

\* ------------------------------------------------------------------ the seeded names as inputs

InitSeeded ==
    /\ init_db
    /\ flash = ""
    /\ split_call = NoCall
    /\ txn = None
    /\ summary = None
    /\ \E k \in DOMAIN PURCHASE_SOURCE_OPTIONS :
           normalize_call = [value |-> PURCHASE_SOURCE_OPTIONS[k], result |-> "", done |-> FALSE]

SpecSeeded == InitSeeded /\ [][NextNormalize]_vars

\* ------------------------------------------------------------------ runs of the batch script

ScriptSources == { "fb", "svp bray", "Car Boot Athy", "Random Shop", "thrift dl" }

ScriptItemRequests ==
    { item_form_fields(ItemForm("Mug", "2.50", "01/02/2024", source, "Unlisted", "", "", "1")) :
          source \in ScriptSources }

NextScript ==
    \/ \E f \in ScriptItemRequests : add_item(f)
    \/ \E apply \in BOOLEAN : normalize_script(apply)

SpecScript == Init /\ [][NextScript]_vars

\* ------------------------------------------------------------------ requests on purchase sources

\* the id init_db gives a seeded name
SeedId(name) == CHOOSE k \in 1..Len(PURCHASE_SOURCE_OPTIONS) : PURCHASE_SOURCE_OPTIONS[k] = name

SourceIds ==
    {SeedId("Facebook Marketplace"), SeedId(fallback_name)} \cup
    (Len(PURCHASE_SOURCE_OPTIONS) + 1)..(Len(PURCHASE_SOURCE_OPTIONS) + MaxNewSources)

SourceNames == { source_name_field(raw_name) : raw_name \in {"", " fb ", "New Shop"} }

MergeIds == {None} \cup { Some(k) : k \in SourceIds }

SourceLotRequests == { lot_form_fields(LotForm("Box A", "01/02/2024", "fb", "0.01")) }

SourceCreateRequests == { created_items_fields(CreateForm("Mug", "1", "Unlisted")) }

\* the purchase_sources ids stay within the bound
SourcesWithinBound == seq'.purchase_sources <= Len(PURCHASE_SOURCE_OPTIONS) + MaxNewSources

NextSources ==
    \/ \E name \in SourceNames : add_purchase_source(name) /\ SourcesWithinBound
    \/ \E source_id \in SourceIds, name \in SourceNames : rename_purchase_source(source_id, name)
    \/ \E from_id \in MergeIds, to_id \in MergeIds : merge_purchase_sources(from_id, to_id)
    \/ \E source_id \in SourceIds : delete_purchase_source(source_id) /\ SourcesWithinBound
    \/ \E f \in SourceLotRequests : split_box_wizard(f) /\ SourcesWithinBound
    \/ \E lot_id \in LotIds, f \in SourceCreateRequests : lot_add_created_items(lot_id, f)

SpecSources == Init /\ [][NextSources]_vars

\* ------------------------------------------------------------------ requests on listings and sales

\* datetime.now().strftime(DATE_FORMAT) at the time of the request
Todays == {"15/03/2024"}

ListingForm(sku, listing_date, ebay_url, vinted_url) ==
    [sku |-> sku, listing_date |-> listing_date, ebay_url |-> ebay_url,
     vinted_url |-> vinted_url, adverts_url |-> ""]

ListingForms ==
    { ListingForm("A1", "10/03/2024", "http://e/1", ""),
      ListingForm("A1", "soon", " http://e/1 ", ""),
      ListingForm("", "10/03/2024", "http://e/1", "") }

ListingRequests ==
    { listing_form_fields(form, today) : form \in ListingForms, today \in Todays }

SaleForm(sku, sale_price, sale_date, sold_marketplace) ==
    [sku |-> sku, sale_price |-> sale_price, sale_date |-> sale_date,
     sold_marketplace |-> sold_marketplace]

SaleForms ==
    { SaleForm("", "35.00", "12/03/2024", "eBay"),
      SaleForm("", "35.00", "12/03/2024", "Depop"),
      SaleForm("", "35,00", "12/03/2024", "eBay") }

SaleRequests == { sale_form_fields(form) : form \in SaleForms }

QuickForms ==
    { SaleForm("A1", "35.00", "", "Depop"),
      SaleForm("", "35.00", "12/03/2024", "eBay") }

QuickRequests ==
    { quick_update_fields(form, today) : form \in QuickForms, today \in Todays }

SaleItemRequests ==
    { item_form_fields(ItemForm("Mug", "20.00", "01/02/2024", "fb", "Unlisted", "", "", "1")) }

SaleEditRequests ==
    { item_form_fields(ItemForm("Mug", "20.00", "01/02/2024", "fb", "Gone", "", "", "1")) }

SaleCsvFiles ==
    { CsvFile(CsvColumns \cup {"listed_date", "ebay_url"},
              << [CsvRow("Mug", "20.00", "2024-02-01", "facebook") EXCEPT
                     !.sku = "A1", !.listed_date = "10/03/2024", !.ebay_url = "http://e/1"] >>) }

NextSales ==
    \/ \E f \in SaleItemRequests : add_item(f)
    \/ \E item_id \in ItemIds, f \in SaleEditRequests : edit_item(item_id, f)
    \/ \E item_id \in ItemIds, f \in ListingRequests : add_listing(item_id, f)
    \/ \E item_id \in ItemIds, f \in SaleRequests : mark_sold(item_id, f)
    \/ \E item_id \in ItemIds, f \in QuickRequests : quick_update_item(item_id, f)
    \/ \E item_id \in ItemIds : delete_item(item_id)
    \/ \E file \in SaleCsvFiles : import_csv(file)

SpecSales == Init /\ [][NextSales]_vars

\* ------------------------------------------------------------------ finalize under interruption

NextFinalize ==
    \/ \E f \in LotRequests : ~InTransaction /\ split_box_wizard(f)
    \/ \E lot_id \in LotIds, f \in CreateRequests :
           ~InTransaction /\ lot_add_created_items(lot_id, f)
    \/ \E lot_id \in LotIds : ~InTransaction /\ lot_reopen(lot_id)
    \/ \E lot_id \in LotIds : finalize_begin(lot_id)
    \/ finalize_update_item
    \/ finalize_update_lot
    \/ finalize_commit
    \/ finalize_interrupt

SpecFinalize == Init /\ [][NextFinalize]_vars

\* ------------------------------------------------------------------ attach with two boxes

\* the database after two requests POST /lots/new on a new file: two open boxes, no items
InitAttach ==
    /\ lots = [k \in {1, 2} |->
                  [reference |-> IF k = 1 THEN "Box A" ELSE "Box B",
                   purchase_date |-> "01/02/2024",
                   purchase_source |-> "Facebook Marketplace",
                   total_cost |-> ToReal(CentsToMills(1)),
                   is_finalized |-> 0]]
    /\ items = EmptyTable
    /\ listings = EmptyTable
    /\ purchase_sources =
           [k \in 1..Len(PURCHASE_SOURCE_OPTIONS) |->
               [name |-> PURCHASE_SOURCE_OPTIONS[k], active |-> 1]]
    /\ seq = [lots |-> 2, items |-> 0, listings |-> 0,
              purchase_sources |-> Len(PURCHASE_SOURCE_OPTIONS)]
    /\ flash = "Box saved as open. Add items and finalise when ready."
    /\ split_call = NoCall
    /\ normalize_call = NoNormalizeCall
    /\ txn = None
    /\ summary = None

\* the attach form with every item ticked, and a value that is no id
AttachAllRequests == { selected_ids_of({ToStr(k) : k \in ItemIds} \cup {"x"}) }

NextAttach ==
    \/ \E f \in ItemRequests : add_item(f)
    \/ \E lot_id \in DOMAIN lots, selected_ids \in AttachAllRequests :
           lot_attach_existing_items(lot_id, selected_ids)
    \/ \E lot_id \in DOMAIN lots, item_id \in ItemIds : lot_remove_item(lot_id, item_id)
    \/ \E lot_id \in DOMAIN lots : lot_finalize(lot_id)
    \/ \E lot_id \in DOMAIN lots : lot_reopen(lot_id)

SpecAttach == InitAttach /\ [][NextAttach]_vars

\* ------------------------------------------------------------------ the summary of the item list

IndexArgs(status, marketplace, listing_url, search) ==
    [status |-> status, marketplace |-> marketplace, listing_url |-> listing_url,
     search |-> search]

IndexRequests ==
    { index_args(args) :
          args \in { IndexArgs("", "", "", ""), IndexArgs("Sold", "", "", " mug "),
                     IndexArgs("", "eBay", "", ""), IndexArgs("Listed", "", "E/1", ""),
                     IndexArgs("", "Vinted", "", "") } }

NextSummary ==
    \/ \E f \in SaleItemRequests : add_item(f)
    \/ \E item_id \in ItemIds, f \in ListingRequests : add_listing(item_id, f)
    \/ \E item_id \in ItemIds, f \in SaleRequests : mark_sold(item_id, f)
    \/ \E a \in IndexRequests : index(a)

SpecSummary == Init /\ [][NextSummary]_vars

\* ------------------------------------------------------------------ requests on sold items

NextSold ==
    \/ \E f \in SaleItemRequests : add_item(f)
    \/ \E item_id \in ItemIds, f \in SaleItemRequests : edit_item(item_id, f)
    \/ \E item_id \in ItemIds, f \in ListingRequests : add_listing(item_id, f)
    \/ \E item_id \in ItemIds, f \in SaleRequests : mark_sold(item_id, f)
    \/ \E item_id \in ItemIds, f \in QuickRequests : quick_update_item(item_id, f)
    \/ restart

SpecSold == Init /\ [][NextSold]_vars

\* ------------------------------------------------------------------ properties of the split

OneCent == CentsToMills(1)

\* C1: for a positive total and a positive n, the n values of split_amount_evenly(total, n)
\* sum to total exactly
SplitSumsToTotal ==
    (split_call.done /\ split_call.total > 0 /\ split_call.count > 0)
        => SumSeq(split_call.values) = split_call.total

\* C8: for every total and every positive n, the largest and the smallest value of
\* split_amount_evenly(total, n) differ by at most one cent
SplitSpreadAtMostOneCent ==
    (split_call.done /\ split_call.count > 0)
        => /\ Len(split_call.values) = split_call.count
           /\ \A i, j \in 1..Len(split_call.values) :
                  split_call.values[i] - split_call.values[j] <= OneCent

\* a call whose values are not all equal: a remainder was handed out
SplitSpreadReached ==
    /\ split_call.done
    /\ split_call.count > 2
    /\ \E i, j \in 1..Len(split_call.values) :
           split_call.values[i] - split_call.values[j] = OneCent

\* ------------------------------------------------------------------ properties of the lot lifecycle

\* a lot that is finalized before and after the step
StaysFinalized(l) ==
    /\ l \in DOMAIN lots /\ lot_is_finalized(lots[l])
    /\ l \in DOMAIN lots' /\ lot_is_finalized(lots'[l])

\* C2: while a lot is finalized, no step that leaves it finalized changes the set of its members
FinalizedMembershipKept ==
    [][\A l \in LotIds :
           StaysFinalized(l) => LotItemIds(items', l) = LotItemIds(items, l)]_vars

\* C3: while a lot is finalized, no step that leaves it finalized changes the purchase_price
\* of a member
FinalizedPricesKept ==
    [][\A l \in LotIds :
           StaysFinalized(l) =>
               \A k \in LotItemIds(items, l) \cap DOMAIN items' :
                   items'[k].purchase_price = items[k].purchase_price]_vars

\* an open lot with at least one member
OpenWithMembers(l) ==
    l \in DOMAIN lots /\ ~lot_is_finalized(lots[l]) /\ LotItemIds(items, l) # {}

\* the members' prices after the step, in ascending id
PricesAfter(l) ==
    LET members == Ascending(LotItemIds(items, l))
    IN [p \in 1..Len(members) |-> items'[members[p]].purchase_price]

\* C4: finalize on an open lot with k >= 1 members sets is_finalized, writes to the members,
\* in ascending id, the shares of split_amount_evenly(total_cost, k), and the members' prices
\* then sum to the lot's total_cost
FinalizeAllocatesTotal ==
    [][\A l \in LotIds :
           (OpenWithMembers(l) /\ lot_finalize(l)) =>
               /\ lot_is_finalized(lots'[l])
               /\ PricesAfter(l) =
                      split_amount_evenly(lots[l].total_cost, Cardinality(LotItemIds(items, l)))
               /\ SumSeq(PricesAfter(l)) = lots'[l].total_cost]_vars

\* C5: finalize on a lot without members changes no stored value and leaves an open lot
\* open; split_amount_evenly with n <= 0 returns no values
FinalizeEmptyLotFails ==
    /\ \A total \in SplitTotals, n \in (0 - MaxSplitCount)..0 :
           split_amount_evenly(total, n) = <<>>
    /\ [][\A l \in LotIds :
              (l \in DOMAIN lots /\ LotItemIds(items, l) = {} /\ lot_finalize(l)) =>
                  /\ UNCHANGED <<lots, items, listings, purchase_sources, seq>>
                  /\ ~lot_is_finalized(lots[l]) => ~lot_is_finalized(lots'[l])]_vars

\* finalize has just been refused on an open lot without members
FinalizeEmptyLotRefused ==
    /\ flash = "Add at least one item before finalising."
    /\ \E l \in DOMAIN lots : ~lot_is_finalized(lots[l]) /\ LotItemIds(items, l) = {}

\* the answer to a request on a finalized lot: the given message, nothing stored changes
Rejected(message) ==
    /\ flash' = message
    /\ UNCHANGED <<lots, items, listings, purchase_sources, seq>>

\* C6: lot edit, bulk item creation, attach and remove on a finalized lot are rejected and
\* leave the store as it was
FinalizedLotRejectsChanges ==
    [][\A l \in LotIds :
           (l \in DOMAIN lots /\ lot_is_finalized(lots[l])) =>
               /\ \A f \in LotRequests :
                      lot_edit(l, f) => Rejected("Finalised boxes cannot be edited. Reopen first.")
               /\ \A f \in CreateRequests :
                      lot_add_created_items(l, f) => Rejected("Reopen the box before adding items.")
               /\ \A selected_ids \in AttachRequests :
                      lot_attach_existing_items(l, selected_ids)
                          => Rejected("Reopen the box before adding items.")
               /\ \A item_id \in ItemIds :
                      lot_remove_item(l, item_id)
                          => Rejected("Reopen the box before removing items.")]_vars

\* a removal has just been refused on a finalized lot that has a member
FinalizedLotRefusedRemoval ==
    /\ flash = "Reopen the box before removing items."
    /\ \E l \in DOMAIN lots : lot_is_finalized(lots[l]) /\ LotItemIds(items, l) # {}

\* C7: reopen leaves the lot with is_finalized = 0 and changes nothing else: the lot's other
\* fields, every item and every other table are as before
ReopenOnlyClearsFlag ==
    [][\A l \in LotIds :
           (l \in DOMAIN lots /\ lot_reopen(l)) =>
               /\ lots' = [lots EXCEPT ![l].is_finalized = 0]
               /\ UNCHANGED <<items, listings, purchase_sources, seq>>]_vars

\* a lot has just been reopened whose member holds a share that is not zero
ReopenedWithShares ==
    /\ flash = "Box reopened. You can edit items and finalise again."
    /\ \E l \in DOMAIN lots :
           /\ ~lot_is_finalized(lots[l])
           /\ \E k \in LotItemIds(items, l) : items[k].purchase_price > 0

\* base + 1 cents in the first `remainder` positions, base cents in the others
SharesByPosition(total, n) ==
    LET cents == RoundHalfEven(total, 10)
        base == cents \div n
        remainder == cents % n
    IN [p \in 1..n |-> IF p <= remainder THEN CentsToMills(base + 1) ELSE CentsToMills(base)]

\* C9: split_amount_evenly returns base + 1 cents in the first `remainder` positions and base
\* cents in the others (10.00 over 3 is 3.34, 3.33, 3.33), and finalize gives position i to the
\* member with the i-th smallest id
SplitByPositionInIdOrder ==
    /\ \A total \in SplitTotals, n \in 1..MaxSplitCount :
           split_amount_evenly(total, n) = SharesByPosition(total, n)
    /\ split_amount_evenly(10000, 3) = <<3340, 3330, 3330>>
    /\ [][\A l \in LotIds :
              (OpenWithMembers(l) /\ lot_finalize(l)) =>
                  PricesAfter(l) =
                      SharesByPosition(lots[l].total_cost, Cardinality(LotItemIds(items, l)))]_vars

\* a lot has just been finalized whose member with the smallest id got the extra cent
ExtraCentToSmallestId ==
    /\ flash = "Box finalised and cost allocated evenly across items."
    /\ \E l \in DOMAIN lots :
           /\ lot_is_finalized(lots[l])
           /\ \E j, k \in LotItemIds(items, l) :
                  j < k /\ items[j].purchase_price = items[k].purchase_price + OneCent

\* ------------------------------------------------------------------ properties of the normalizer

\* C10: normalize_purchase_source is idempotent on every stored source, and once the batch
\* script has updated the rows, a second run finds no row to change
NormalizeIdempotent ==
    \A k \in DOMAIN items :
        LET x == items[k].purchase_source
        IN /\ normalize_purchase_source(normalize_purchase_source(x)) = normalize_purchase_source(x)
           /\ StartsWith(flash, "Updated ") => normalize_purchase_source(x) = x

\* ------------------------------------------------------------------ properties of purchase sources

\* the number of items that reference a source name
ItemCount(tbl, name) == Cardinality({k \in DOMAIN tbl : tbl[k].purchase_source = name})

\* C11: after merging the existing source A into a different existing source B, no item
\* references A's name, A's record is gone, and B is referenced by as many items as A and B
\* were before
MergeMovesItems ==
    [][\A a, b \in SourceIds :
           (a # b /\ a \in DOMAIN purchase_sources /\ b \in DOMAIN purchase_sources
                  /\ merge_purchase_sources(Some(a), Some(b))) =>
               LET A == purchase_sources[a].name
                   B == purchase_sources[b].name
               IN /\ \A k \in DOMAIN items' : items'[k].purchase_source # A
                  /\ a \notin DOMAIN purchase_sources'
                  /\ b \in DOMAIN purchase_sources' /\ purchase_sources'[b].name = B
                  /\ ItemCount(items', B) = ItemCount(items, A) + ItemCount(items, B)]_vars

\* a merge of "Facebook Marketplace" into the fallback has just moved an item
MergedIntoFallback ==
    /\ flash = "Purchase sources merged."
    /\ SeedId("Facebook Marketplace") \notin DOMAIN purchase_sources
    /\ \E k \in DOMAIN items : items[k].purchase_source = fallback_name

\* C12: every item's purchase_source is the name of an existing purchase_sources record
ItemSourcesExist ==
    \A k \in DOMAIN items : SourceExists(purchase_sources, items[k].purchase_source)

\* C13: deleting the source named "Other" is rejected and changes nothing; deleting another
\* existing source removes its record and moves exactly the items that referenced it to "Other"
DeleteMovesItemsToFallback ==
    [][\A s \in SourceIds :
           (s \in DOMAIN purchase_sources /\ delete_purchase_source(s)) =>
               IF purchase_sources[s].name = "Other"
               THEN UNCHANGED <<lots, items, listings, purchase_sources, seq>>
               ELSE /\ s \notin DOMAIN purchase_sources'
                    /\ DOMAIN items' = DOMAIN items
                    /\ \A k \in DOMAIN items :
                           items'[k] = IF items[k].purchase_source = purchase_sources[s].name
                                       THEN [items[k] EXCEPT !.purchase_source = "Other"]
                                       ELSE items[k]]_vars

\* a delete has just moved an item to "Other" next to an item it left alone
DeletedWithItems ==
    /\ flash = "Purchase source deleted."
    /\ \E j, k \in DOMAIN items :
           items[j].purchase_source = "Other" /\ items[k].purchase_source # "Other"

\* C14: renaming an existing source to a name that no record uses updates the record and the
\* items, so that no item references the old name and the new name is referenced by as many
\* items as the old one was; renaming to a name a record uses already is rejected without change
RenameMovesItems ==
    [][\A s \in SourceIds, name \in SourceNames :
           (s \in DOMAIN purchase_sources /\ name # "" /\ rename_purchase_source(s, name)) =>
               IF SourceExists(purchase_sources, name)
               THEN UNCHANGED <<lots, items, listings, purchase_sources, seq>>
               ELSE /\ purchase_sources'[s].name = name
                    /\ \A k \in DOMAIN items' :
                           items'[k].purchase_source # purchase_sources[s].name
                    /\ ItemCount(items', name) = ItemCount(items, purchase_sources[s].name)]_vars

\* ------------------------------------------------------------------ properties of items and listings

\* the messages with which a handler refuses a submitted field
ValidationMessages ==
    { "Item name is required.", "Purchase price must be a number.",
      "Purchase date must be in %d/%m/%Y format.", "Purchase source is required.",
      "Invalid status.", "Listed date must be in %d/%m/%Y format.",
      "Quantity must be a whole number.",
      "Quantity must be at least 2 when adding multiple items.",
      "Quantity is too large. Please use 200 or less.",
      "SKU is required to add a listing.", "Please enter at least one listing URL.",
      "Listing date must be in %d/%m/%Y format.", "Invalid marketplace.",
      "Sale price must be a number.", "Sale date must be in %d/%m/%Y format.",
      "Sold marketplace is required.", "Sold marketplace is required to mark as sold.",
      "Box reference is required.", "Total box cost must be greater than 0." }

\* C15: a request that is rejected because a submitted field fails validation writes nothing:
\* the stored state is the same before and after it
RejectedRequestsWriteNothing ==
    [][flash' \in ValidationMessages
           => UNCHANGED <<lots, items, listings, purchase_sources, seq>>]_vars

ListingsFollowItems ==
    /\ [](\A k \in DOMAIN listings : listings[k].item_id \in DOMAIN items)
    /\ [][\A i \in ItemIds :
              (i \in DOMAIN items /\ delete_item(i)) =>
                  \A k \in DOMAIN listings' : listings'[k].item_id # i]_vars

\* an item has just been deleted and a listing went with it
ListingDeletedWithItem ==
    /\ flash = "Item deleted."
    /\ seq.listings > Cardinality(DOMAIN listings)

\* ------------------------------------------------------------------ properties of the transaction

\* C17: finalize is all-or-nothing, also when it is interrupted: a step either leaves the
\* members' prices and the lot as they are, or writes every member's share and marks the lot
\* finalized
FinalizeAllOrNothing ==
    [][\A l \in LotIds :
           (l \in DOMAIN lots /\ ~lot_is_finalized(lots[l])) =>
               \/ /\ lots'[l] = lots[l]
                  /\ \A k \in LotItemIds(items, l) :
                         k \in DOMAIN items' /\ items'[k].purchase_price = items[k].purchase_price
               \/ /\ lot_is_finalized(lots'[l])
                  /\ PricesAfter(l) =
                         split_amount_evenly(lots[l].total_cost,
                                             Cardinality(LotItemIds(items, l)))]_vars

\* a finalize was interrupted after it had written the price of some member and before it
\* had written them all
InterruptedPartWay ==
    /\ txn # None
    /\ txn.status = "rolled back"
    /\ txn.next > 1 /\ txn.next <= Len(txn.item_rows)
    /\ \E k \in DOMAIN items : txn.items[k].purchase_price # items[k].purchase_price
    /\ ~lot_is_finalized(lots[txn.lot_id])

\* ------------------------------------------------------------------ properties of the normalizer

\* what the normalizer is to return for the prefix sources, written out
PrefixLabels ==
    [ text \in PrefixSources |->
        CASE text = "SVP Bray" -> "SVP - Bray"
          [] text = "Vision Ireland Bray" -> "Vision Ireland - Bray"
          [] text = "Vision Athy" -> "Vision Ireland - Athy"
          [] text = "Sue Ryder Athy" -> "Sue Ryder - Athy"
          [] text = "Cancer Research Bray" -> "Cancer Research - Bray"
          [] text = "Cancer Athy" -> "Cancer Research - Athy"
          [] text = "Car Boot Athy" -> "Car Boot - Athy"
          [] text = "Oxfam Dun Laoghaire" -> "Oxfam - Dun Laoghaire"
          [] text = "Jack and Jill Athy" -> "Jack and Jill - Athy"
          [] text = "Enable Bray" -> "Enable Ireland - Bray"
          [] text = "Barnardos Athy" -> "Barnardos - Athy"
          [] text = "Ark Athy" -> "Ark - Athy" ]

NormalizeCases ==
    { [value |-> v, expected |-> ""] : v \in {"", " ", "   "} }
    \cup UNION { { [value |-> v, expected |-> replacements[key]] :
                       v \in UNION { Padded(f) : f \in Forms(key) } } :
                 key \in DOMAIN replacements }
    \cup UNION { { [value |-> v, expected |-> PrefixLabels[text]] :
                       v \in UNION { Padded(f) : f \in Forms(text) } } :
                 text \in PrefixSources }
    \cup UNION { { [value |-> v, expected |-> f] : v \in Padded(f) } :
                 f \in UNION { Forms(text) : text \in UnmatchedSources } }

\* C18: in whatever case and spacing it is typed, an alias key gives its canonical label, a
\* prefix source gives "Prefix - Title-Cased Location", an empty or blank text gives "", and a
\* text no rule matches comes back as typed, trimmed
NormalizeByRule ==
    /\ NormalizeInputs = { c.value : c \in NormalizeCases }
    /\ "fb" \in NormalizeInputs /\ "Car Boot Athy" \in NormalizeInputs
    /\ \A c \in NormalizeCases :
           (normalize_call.done /\ normalize_call.value = c.value) =>
               normalize_call.result = c.expected

\* a prefix source typed in capitals with spaces around it was given its label
PrefixSourceLabelled ==
    /\ normalize_call.done
    /\ normalize_call.value = " SVP BRAY  "
    /\ normalize_call.result = "SVP - Bray"

\* ------------------------------------------------------------------ properties of the import

\* the rows of a file with a name, a price that is a number, a date and a source
ValidRows(rows) ==
    { k \in 1..Len(rows) :
          /\ rows[k].name # ""
          /\ rows[k].purchase_price \notin {None, NaN}
          /\ rows[k].purchase_date # None
          /\ rows[k].purchase_source # "" }

\* C20: an import inserts an item for every valid row of the file, whatever the rows around
\* it, and reports the number of items it inserted
ImportSkipsOnlyBadRows ==
    [][\A file \in CsvFiles :
           (file # None /\ import_csv(file)) =>
               /\ Cardinality(DOMAIN items' \ DOMAIN items)
                      >= Cardinality(ValidRows(Get(file).rows))
               /\ flash' = "Imported " \o ToStr(Cardinality(DOMAIN items' \ DOMAIN items))
                               \o " items."]_vars

\* ------------------------------------------------------------------ properties of the lot's flag

\* C21: a lot is created open; it becomes finalized only by a finalize request on a lot with
\* a member, and open again only by a reopen request
FlagChangesByFinalizeAndReopen ==
    [][\A l \in LotIds :
           /\ (l \in DOMAIN lots' /\ l \notin DOMAIN lots) => ~lot_is_finalized(lots'[l])
           /\ (l \in DOMAIN lots /\ ~lot_is_finalized(lots[l]) /\ lot_is_finalized(lots'[l])) =>
                  (lot_finalize(l) /\ LotItemIds(items, l) # {})
           /\ (l \in DOMAIN lots /\ lot_is_finalized(lots[l]) /\ ~lot_is_finalized(lots'[l])) =>
                  lot_reopen(l)]_vars

\* a finalize request has marked a lot with members finalized
FinalizedByRequest ==
    /\ flash = "Box finalised and cost allocated evenly across items."
    /\ \E l \in DOMAIN lots : lot_is_finalized(lots[l]) /\ LotItemIds(items, l) # {}

\* C22: a removal from a lot leaves the removed item's purchase_price as it was, and a finalize
\* (the first, or one after a reopen and a change of membership) writes the shares of the
\* lot's current members only, which sum to the lot's total_cost, and leaves every other item
\* as it was
RefinalizeOverCurrentMembers ==
    [][\A l \in LotIds :
           /\ \A k \in DOMAIN items :
                  (lot_remove_item(l, k) /\ flash' = "Item removed from box.") =>
                      items'[k].purchase_price = items[k].purchase_price
           /\ (OpenWithMembers(l) /\ lot_finalize(l)) =>
                  /\ PricesAfter(l) = split_amount_evenly(lots[l].total_cost,
                                                          Cardinality(LotItemIds(items, l)))
                  /\ \A k \in DOMAIN items \ LotItemIds(items, l) : items'[k] = items[k]
                  /\ SumSeq(PricesAfter(l)) = lots[l].total_cost]_vars

\* ------------------------------------------------------------------ properties of attach

\* C23: an attach request leaves every item that belongs to a lot as it was, so no lot, open
\* or finalized, loses a member to it
AttachTakesUnassignedOnly ==
    [][\A l \in DOMAIN lots, selected_ids \in AttachAllRequests :
           lot_attach_existing_items(l, selected_ids) =>
               /\ \A k \in DOMAIN items : items[k].lot_id # None => items'[k] = items[k]
               /\ \A k \in selected_ids \cap DOMAIN items :
                      (items[k].lot_id = None /\ ~lot_is_finalized(lots[l])) =>
                          items'[k].lot_id = Some(l)
               /\ \A m \in DOMAIN lots : LotItemIds(items, m) \subseteq LotItemIds(items', m)]_vars

\* an attach with every item ticked has filled one lot while the other lot, finalized, kept
\* its member
AttachedBesideMember ==
    /\ flash = "Existing items added to box."
    /\ \E l, m \in DOMAIN lots :
           /\ l # m
           /\ lot_is_finalized(lots[m]) /\ ~lot_is_finalized(lots[l])
           /\ LotItemIds(items, l) # {} /\ LotItemIds(items, m) # {}

\* ------------------------------------------------------------------ properties of the rule order

\* the rules after the alias table, in the order the claim gives
RuleOrder ==
    << "svp", "vision ireland", "vision", "sue ryder", "cancer research", "cancer", "car boot",
       "auction", "wholesale", "thrift", "oxfam", "jack and jill", "enable", "barnardos", "ark" >>

\* whether the rule's condition holds of the lower-cased, collapsed text
RuleMatches(rule, lower) ==
    IF rule = "car boot" THEN Contains(lower, "car boot") \/ Contains(lower, "carboot")
    ELSE IF rule \in {"auction", "wholesale", "thrift"} THEN Contains(lower, rule)
    ELSE IF rule = "ark" THEN StartsWith(lower, "ark ") \/ lower = "ark"
    ELSE StartsWith(lower, rule \o " ")

\* the rules that match each overlapping source, and what the first of them is to return
OverlappingCases ==
    { [text |-> "SVP Car Boot", rules |-> {"svp", "car boot"}, expected |-> "SVP - Car Boot"],
      [text |-> "Vision Ireland Auction", rules |-> {"vision ireland", "vision", "auction"},
       expected |-> "Vision Ireland - Auction"],
      [text |-> "Vision Thrift", rules |-> {"vision", "thrift"},
       expected |-> "Vision Ireland - Thrift"],
      [text |-> "Sue Ryder Wholesale", rules |-> {"sue ryder", "wholesale"},
       expected |-> "Sue Ryder - Wholesale"],
      [text |-> "Cancer Research Thrift", rules |-> {"cancer research", "cancer", "thrift"},
       expected |-> "Cancer Research - Thrift"],
      [text |-> "Cancer Auction", rules |-> {"cancer", "auction"},
       expected |-> "Cancer Research - Auction"],
      [text |-> "Car Boot Auction", rules |-> {"car boot", "auction"},
       expected |-> "Car Boot - Auction"],
      [text |-> "Carboot Thrift", rules |-> {"car boot", "thrift"},
       expected |-> "Car Boot - Thrift"],
      [text |-> "Auction Wholesale", rules |-> {"auction", "wholesale"},
       expected |-> "Auction - Other"],
      [text |-> "Wholesale Thrift", rules |-> {"wholesale", "thrift"},
       expected |-> "Wholesale - Other"],
      [text |-> "Oxfam Thrift", rules |-> {"thrift", "oxfam"}, expected |-> "Thrift - Oxfam"],
      [text |-> "Jack and Jill Carboot", rules |-> {"car boot", "jack and jill"},
       expected |-> "Car Boot - Jack And Jill"],
      [text |-> "Enable Auction Downs", rules |-> {"auction", "enable"},
       expected |-> "Auction - Downs"],
      [text |-> "Barnardos Wholesale Vintage", rules |-> {"wholesale", "barnardos"},
       expected |-> "Wholesale - Vintage"],
      [text |-> "Ark Thrift", rules |-> {"thrift", "ark"}, expected |-> "Thrift - Ark"],
      [text |-> "Oxfam Auction", rules |-> {"auction", "oxfam"}, expected |-> "Auction - Other"] }

\* C24: of a source that matches several rules, in whatever case and spacing it is typed, the
\* normalizer returns what the rule earliest in the order returns
FirstRuleWins ==
    /\ OverlappingSources = { c.text : c \in OverlappingCases }
    /\ \A c \in OverlappingCases :
           /\ Cardinality(c.rules) > 1
           /\ c.rules = { RuleOrder[r] : r \in { q \in DOMAIN RuleOrder :
                                                   RuleMatches(RuleOrder[q], Lower(c.text)) } }
           /\ \A v \in UNION { Padded(f) : f \in Forms(c.text) } :
                  (normalize_call.done /\ normalize_call.value = v) =>
                      normalize_call.result = c.expected

\* a source that starts with "oxfam " and holds "thrift" was labelled by the thrift rule
EarlierSubstringRuleApplied ==
    /\ normalize_call.done
    /\ normalize_call.value = "OXFAM THRIFT"
    /\ normalize_call.result = "Thrift - Oxfam"

\* ------------------------------------------------------------------ properties of the summary

\* the items with a joined row that passes the filters
MatchingItems(a) ==
    { row[1] : row \in { r \in JoinedRows(Db) :
                             RowPasses(Db, r, a.status, a.marketplace, a.listing_url, a.search) } }

RECURSIVE SumItems(_, _)
SumItems(ids, column) ==
    IF ids = {} THEN 0
    ELSE LET k == CHOOSE i \in ids : TRUE
             value == IF column = "purchase_price" THEN items[k].purchase_price
                      ELSE IF items[k].sale_price = None THEN 0 ELSE Get(items[k].sale_price)
         IN value + SumItems(ids \ {k}, column)

\* C25: the summary's totals are the sums of purchase_price and sale_price over the items
\* that match the filters, each item once, and profit is total_sale - total_purchase
SummaryCountsItemsOnce ==
    [][\A a \in IndexRequests :
           index(a) =>
               LET totals == Get(summary').totals
               IN /\ totals.total_purchase = SumItems(MatchingItems(a), "purchase_price")
                  /\ totals.total_sale = SumItems(MatchingItems(a), "sale_price")
                  /\ totals.profit = totals.total_sale - totals.total_purchase]_vars

\* ------------------------------------------------------------------ properties of a repeated finalize

\* C26: a finalize request on a finalized lot is answered with "Box is already finalised." and
\* writes nothing: no price, and the lot stays finalized
RepeatedFinalizeRejected ==
    [][\A l \in LotIds :
           (l \in DOMAIN lots /\ lot_is_finalized(lots[l]) /\ lot_finalize(l)) =>
               /\ Rejected("Box is already finalised.")
               /\ lot_is_finalized(lots'[l])]_vars

\* a finalize request was refused on a finalized lot whose member's price is no longer the
\* share it was given
RepeatedFinalizeRefused ==
    /\ flash = "Box is already finalised."
    /\ \E l \in DOMAIN lots :
           /\ lot_is_finalized(lots[l])
           /\ LotItemIds(items, l) # {}
           /\ allocate_lot_cost_evenly(Db, l).items # items

\* C27: every finalized lot has at least one member
FinalizedLotsHaveMembers ==
    \A l \in DOMAIN lots : lot_is_finalized(lots[l]) => LotItemIds(items, l) # {}

\* ------------------------------------------------------------------ properties of sold items

\* C28: an item whose sale_price is set has status Sold
SalePriceMeansSold ==
    \A k \in DOMAIN items : items[k].sale_price # None => items[k].status = "Sold"

\* ------------------------------------------------------------------ properties of the fallback source

\* C29: no step removes or renames the record named "Other": once there is one, there is one
\* in the next state
FallbackRecordKept ==
    [][SourceExists(purchase_sources, fallback_name)
           => SourceExists(purchase_sources', fallback_name)]_vars

\* ------------------------------------------------------------------ properties of the seeded names

\* C30: the normalizer returns every name of PURCHASE_SOURCE_OPTIONS as it is
SeededNamesAreFixedPoints ==
    \A k \in DOMAIN PURCHASE_SOURCE_OPTIONS :
        (normalize_call.done /\ normalize_call.value = PURCHASE_SOURCE_OPTIONS[k]) =>
            normalize_call.result = PURCHASE_SOURCE_OPTIONS[k]

====
